---- MODULE Spec2Model ----
(***************************************************************************)
(* Verification model of the auto-signal trading-signal bot.               *)
(*                                                                         *)
(* The module holds one state machine per component:                       *)
(*   SpecTracker   SignalTrackerService (registry and lifecycle of         *)
(*                 SignalRecords)                                          *)
(*   SpecCooldown  SignalService, MACDSignalService,                       *)
(*                 MarketStructureService, VolumeDivergenceService         *)
(*                 (cooldown and change-significance filter)               *)
(*   SpecScalping  ScalpingService.processMarketData                       *)
(*   SpecBotTask   executeBotTask of the single-pair bot                   *)
(*   SpecMultiPair BotService.executeBotTask of the multi-pair bot         *)
(*   SpecPivot     pivot / divergence detection over a candle sequence     *)
(*                                                                         *)
(* Prices are integers (a price p stands for p/1000 quote units), times    *)
(* are milliseconds as returned by Date.now().                             *)
(***************************************************************************)
EXTENDS Integers, Sequences, FiniteSets, TLC

VARIABLES
    now,            \* Date.now() of the tracker's clock (ms)
    signals,        \* SignalTrackerService.signals
    lastCall,       \* history: the last tracker call, its price and its Date.now()
    trackerReturn   \* history: the value the last tracker query returned

trackerVars == <<now, signals, lastCall, trackerReturn>>

(***************************************************************************)
(* Helpers                                                                 *)
(***************************************************************************)
Abs(x) == IF x < 0 THEN -x ELSE x

\* (mutant) truncation instead of Math.round
RoundDivFloor(a, b) == a \div b

\* Math.round(a / b) for a >= 0, b > 0: halves round up.
RoundDiv(a, b) == (2 * a + b) \div (2 * b)

\* An optional field of a record: <<>> is undefined, <<v>> is the value v.
Undefined == <<>>
Some(v) == <<v>>

(***************************************************************************)
(* Bounds of the tracker model                                             *)
(***************************************************************************)
MaxSignals == 1
MaxTicks == 3
\* one step of the clock, in ms
ClockStep == 30000
\* config.signalExpiryHours * 60 * 60 * 1000, for the configured expiry
ExpiryTime == 60000

Symbols == {"BTCUSDT"}
\* the price a detector reports in its signal (a pivot or the current price)
SignalPrices == {100000}
\* the current price handed to a record call
EntryPrices == {100000}
\* the current price handed to recordRSIDivergence: the price of the pivot the
\* signal was computed from, or the price two candles later
RsiEntryPrices == {100000, 102000}
\* the prices observed by updateSignalStatus
ObservedPrices == {97000, 100000, 101000, 103000}

(***************************************************************************)
(* TP/SL as computed by the detectors (percentages in per mille so that    *)
(* 2.2% and 1.1% are integers; the prices used make the divisions exact).  *)
(***************************************************************************)
CalculateTPSL(price, isBullish, tpPermille, slPermille) ==
    IF isBullish
    THEN [takeProfit |-> (price * (1000 + tpPermille)) \div 1000,
          stopLoss   |-> (price * (1000 - slPermille)) \div 1000]
    ELSE [takeProfit |-> (price * (1000 - tpPermille)) \div 1000,
          stopLoss   |-> (price * (1000 + slPermille)) \div 1000]

\* getDefaultDivergenceConfig: tpPercent 1.0, slPercent 1.0
RsiTpPermille == 10
RsiSlPermille == 10
\* MACDSignalService / MarketStructureService defaults: tpPercent 2.0, slPercent 1.0
MacdTpPermille == 20
MacdSlPermille == 10
StructureTpPermille == 20
StructureSlPermille == 10
\* detectVolumeDivergence: tpPercent 2.2, slPercent 1.1
VolDivTpPermille == 22
VolDivSlPermille == 11

\* The signal detectRSIDivergence returns for a divergence of `type` at pivot `price`.
RsiDivergenceSignal(type, price) ==
    LET t == CalculateTPSL(price, type = "BULLISH", RsiTpPermille, RsiSlPermille)
    IN  [type |-> type, price |-> price,
         takeProfit |-> t.takeProfit, stopLoss |-> t.stopLoss]

\* The signal detectMACDDivergence returns.
MacdDivergenceSignal(type, price) ==
    LET t == CalculateTPSL(price, type = "BULLISH", MacdTpPermille, MacdSlPermille)
    IN  [type |-> type, price |-> price,
         takeProfit |-> t.takeProfit, stopLoss |-> t.stopLoss]

StructureTypeOf == [HH |-> "BULLISH_BREAK", HL |-> "BULLISH_CONTINUATION",
                    LL |-> "BEARISH_BREAK", LH |-> "BEARISH_CONTINUATION"]

\* The signal analyzeMarketStructure returns for a classified window.
StructureSignal(structureType, currentPrice) ==
    LET t == CalculateTPSL(currentPrice, structureType \in {"HH", "HL"},
                           StructureTpPermille, StructureSlPermille)
    IN  [type |-> StructureTypeOf[structureType], structureType |-> structureType,
         price |-> currentPrice,
         takeProfit |-> t.takeProfit, stopLoss |-> t.stopLoss]

\* The signal detectVolumeDivergence returns (price is the last close).
VolumeDivergenceSignal(divergenceType, price) ==
    LET t == CalculateTPSL(price, divergenceType = "BULLISH",
                           VolDivTpPermille, VolDivSlPermille)
    IN  [divergenceType |-> divergenceType, price |-> price,
         takeProfit |-> t.takeProfit, stopLoss |-> t.stopLoss]

(***************************************************************************)
(* SignalTrackerService                                                    *)
(***************************************************************************)
\* riskRewardRatio = |tp - price| / |price - sl|, kept as a fraction
Ratio(n, d) == [num |-> n, den |-> d]

NewRecord(symbol, signalType, subType, currentPrice, tp, sl, rr) ==
    [symbol |-> symbol, signalType |-> signalType, signalSubType |-> subType,
     entryPrice |-> currentPrice, takeProfit |-> tp, stopLoss |-> sl,
     entryTime |-> now, status |-> "ACTIVE",
     exitPrice |-> Undefined, exitTime |-> Undefined, duration |-> Undefined,
     pnl |-> Undefined, pnlPercent |-> Undefined,
     riskRewardRatio |-> rr]

\* this.signals.push(record) while the registry holds fewer than max records
PushUpTo(rec, call, max) ==
    /\ Len(signals) < max
    /\ signals' = Append(signals, rec)
    /\ lastCall' = [op |-> call, price |-> rec.entryPrice, at |-> now]
    /\ UNCHANGED <<now, trackerReturn>>

Push(rec, call) == PushUpTo(rec, call, MaxSignals)

recordRSIDivergence(symbol, signal, currentPrice) ==
    Push(NewRecord(symbol, "RSI_DIVERGENCE", signal.type, currentPrice,
                   signal.takeProfit, signal.stopLoss,
                   Ratio(Abs(signal.takeProfit - currentPrice),
                         Abs(currentPrice - signal.stopLoss))),
         "recordRSIDivergence")

recordMACDDivergence(symbol, signal, currentPrice) ==
    Push(NewRecord(symbol, "MACD_DIVERGENCE", signal.type, currentPrice,
                   signal.takeProfit, signal.stopLoss,
                   Ratio(Abs(signal.takeProfit - currentPrice),
                         Abs(currentPrice - signal.stopLoss))),
         "recordMACDDivergence")

recordMarketStructure(symbol, signal, currentPrice) ==
    Push(NewRecord(symbol, "MARKET_STRUCTURE", signal.structureType, currentPrice,
                   signal.takeProfit, signal.stopLoss,
                   Ratio(Abs(signal.takeProfit - currentPrice),
                         Abs(currentPrice - signal.stopLoss))),
         "recordMarketStructure")

\* volatility of recordVolumeSpike in per mille, from the volume ratio (in tenths)
SpikeVolatility(volumeRatio10) ==
    IF volumeRatio10 > 30 THEN 20 ELSE IF volumeRatio10 > 20 THEN 15 ELSE 10

recordVolumeSpike(symbol, severity, volumeRatio10, currentPrice) ==
    LET v == SpikeVolatility(volumeRatio10)
        \* currentPrice * (1 + volatility), currentPrice * (1 - volatility * 0.5)
        tp == (currentPrice * (1000 + v)) \div 1000
        sl == (currentPrice * (2000 - v)) \div 2000
    IN  Push(NewRecord(symbol, "VOLUME_SPIKE", severity, currentPrice, tp, sl,
                       Ratio(2 * v, v)),
             "recordVolumeSpike")

recordVolumeDivergence(symbol, signal, currentPrice) ==
    Push(NewRecord(symbol, "VOLUME_DIVERGENCE", signal.divergenceType, currentPrice,
                   signal.takeProfit, signal.stopLoss,
                   Ratio(Abs(signal.takeProfit - currentPrice),
                         Abs(currentPrice - signal.stopLoss))),
         "recordVolumeDivergence")

\* isBullish of updateSignalStatus
IsBullish(rec) == rec.signalSubType \in {"BULLISH", "HH", "HL"}

\* A record closed at exitPrice with the given pnl: the five exit fields are
\* assigned together.
Closed(rec, status, exitPrice, pnl, at) ==
    [rec EXCEPT !.status = status,
                !.exitPrice = Some(exitPrice),
                !.exitTime = Some(at),
                !.duration = Some(RoundDiv(at - rec.entryTime, 1000 * 60)),
                !.pnl = Some(pnl),
                !.pnlPercent = Some(Ratio(pnl * 100, rec.entryPrice))]

\* (mutant) a record expires as soon as its age reaches the expiry
IsExpiredAtLimit(rec, at, expiryTime) == at - rec.entryTime >= expiryTime

\* The expiry test of updateSignalStatus.
IsExpired(rec, at, expiryTime) == at - rec.entryTime > expiryTime

\* (mutant) the take-profit level itself does not count as reached
TakeProfitReachedStrict(rec, currentPrice) ==
    IF IsBullish(rec) THEN currentPrice > rec.takeProfit
                      ELSE currentPrice < rec.takeProfit

\* The TP/SL tests of updateSignalStatus.
TakeProfitReached(rec, currentPrice) ==
    IF IsBullish(rec) THEN currentPrice >= rec.takeProfit
                      ELSE currentPrice <= rec.takeProfit

StopLossReached(rec, currentPrice) ==
    IF IsBullish(rec) THEN currentPrice <= rec.stopLoss
                      ELSE currentPrice >= rec.stopLoss

\* The body of the loop of updateSignalStatus for a record that is ACTIVE.
UpdateActive(rec, currentPrice, at, expiryTime) ==
    IF IsExpired(rec, at, expiryTime)
         THEN Closed(rec, "EXPIRED", currentPrice, currentPrice - rec.entryPrice, at)
    ELSE IF TakeProfitReached(rec, currentPrice)
         THEN Closed(rec, "TP_HIT", rec.takeProfit,
                     IF IsBullish(rec) THEN rec.takeProfit - rec.entryPrice
                                       ELSE rec.entryPrice - rec.takeProfit, at)
    ELSE IF StopLossReached(rec, currentPrice)
         THEN Closed(rec, "SL_HIT", rec.stopLoss,
                     IF IsBullish(rec) THEN rec.stopLoss - rec.entryPrice
                                       ELSE rec.entryPrice - rec.stopLoss, at)
    ELSE rec

\* (mutant) the loop without `if (signal.status !== "ACTIVE") continue`
UpdateOneNoSkip(rec, currentPrice, at, expiryTime) ==
    UpdateActive(rec, currentPrice, at, expiryTime)

\* The body of the loop of updateSignalStatus for one record.
UpdateOne(rec, currentPrice, at, expiryTime) ==
    IF rec.status # "ACTIVE" THEN rec
    ELSE UpdateActive(rec, currentPrice, at, expiryTime)

updateSignalStatus(currentPrice) ==
    /\ signals # <<>>
    /\ signals' = [i \in 1..Len(signals) |->
                      UpdateOne(signals[i], currentPrice, now, ExpiryTime)]
    /\ lastCall' = [op |-> "updateSignalStatus", price |-> currentPrice, at |-> now]
    /\ UNCHANGED <<now, trackerReturn>>

\* Date.now() moves on between two calls.
TrackerClock ==
    /\ now < MaxTicks * ClockStep
    /\ now' = now + ClockStep
    /\ UNCHANGED <<signals, lastCall, trackerReturn>>

RecordRSI ==
    \E s \in Symbols, ty \in {"BULLISH", "BEARISH"}, p \in SignalPrices, c \in RsiEntryPrices :
        recordRSIDivergence(s, RsiDivergenceSignal(ty, p), c)

RecordMACD ==
    \E s \in Symbols, ty \in {"BULLISH", "BEARISH"}, p \in SignalPrices, c \in EntryPrices :
        recordMACDDivergence(s, MacdDivergenceSignal(ty, p), c)

RecordStructure ==
    \E s \in Symbols, st \in {"HH", "HL", "LH", "LL"}, c \in EntryPrices :
        recordMarketStructure(s, StructureSignal(st, c), c)

RecordSpike ==
    \E s \in Symbols, sv \in {<<"LOW", 16>>, <<"MEDIUM", 25>>, <<"HIGH", 40>>},
       c \in EntryPrices :
        recordVolumeSpike(s, sv[1], sv[2], c)

RecordVolumeDivergence ==
    \E s \in Symbols, ty \in {"BULLISH", "BEARISH"}, p \in SignalPrices, c \in EntryPrices :
        recordVolumeDivergence(s, VolumeDivergenceSignal(ty, p), c)

UpdateStatus == \E p \in ObservedPrices : updateSignalStatus(p)

TrackerInit ==
    /\ now = 0
    /\ signals = <<>>
    /\ lastCall = [op |-> "none", price |-> 0, at |-> 0]
    /\ trackerReturn = Undefined


\* ---------------------------------------------------------------------------
\* Properties of the signal tracker (checked under SpecTracker)
\* ---------------------------------------------------------------------------

Terminal == {"TP_HIT", "SL_HIT", "EXPIRED"}
BullishSubTypes == {"BULLISH", "HH", "HL"}
BearishSubTypes == {"BEARISH", "LH", "LL"}

\* The step from the unprimed to the primed state is a call of
\* updateSignalStatus with the given price.
IsUpdateStep(p) ==
    /\ lastCall'.op = "updateSignalStatus"
    /\ lastCall'.price = p
    /\ lastCall'.at = now
    /\ now' = now
    /\ Len(signals') = Len(signals)
    /\ signals # <<>>

\* C1: a record changes status at most once, from ACTIVE to TP_HIT, SL_HIT
\* or EXPIRED; once it is terminal no later step (in particular no
\* updateSignalStatus call, whatever the price) changes any of its fields.
C1_TerminalIsFinal ==
    [][\A i \in 1..Len(signals) :
          /\ i <= Len(signals')
          /\ signals[i].status # "ACTIVE" => signals'[i] = signals[i]
          /\ signals'[i].status # signals[i].status =>
                 /\ signals[i].status = "ACTIVE"
                 /\ signals'[i].status \in Terminal]_trackerVars

\* C1 witness: updateSignalStatus was called, with a price other than the exit
\* price, strictly after the record had become terminal.
C1_Witness ==
    \E i \in 1..Len(signals) :
        /\ signals[i].status \in Terminal
        /\ lastCall.op = "updateSignalStatus"
        /\ lastCall.at > signals[i].exitTime[1]
        /\ lastCall.price # signals[i].exitPrice[1]

\* The status C3 prescribes for a directional record that is ACTIVE and not
\* expired when `p` is observed.
C3_Expected(rec, p) ==
    IF rec.signalSubType \in BullishSubTypes
    THEN IF p >= rec.takeProfit THEN "TP_HIT"
         ELSE IF p <= rec.stopLoss THEN "SL_HIT" ELSE "ACTIVE"
    ELSE IF p <= rec.takeProfit THEN "TP_HIT"
         ELSE IF p >= rec.stopLoss THEN "SL_HIT" ELSE "ACTIVE"

\* C3: for an ACTIVE, non-expired record, updateSignalStatus makes a bullish
\* record TP_HIT when price >= takeProfit, otherwise SL_HIT when
\* price <= stopLoss, otherwise leaves it ACTIVE; a bearish record is mirrored.
C3_TpSlDecision ==
    [][\A p \in ObservedPrices : IsUpdateStep(p) =>
          \A i \in 1..Len(signals) :
              ( /\ signals[i].status = "ACTIVE"
                /\ now - signals[i].entryTime <= ExpiryTime
                /\ signals[i].signalSubType \in BullishSubTypes \cup BearishSubTypes )
              => signals'[i].status = C3_Expected(signals[i], p)]_trackerVars

\* C3 witness: a bullish record closed as TP_HIT by a price equal to its
\* take-profit level.
C3_Witness ==
    \E i \in 1..Len(signals) :
        /\ signals[i].signalSubType \in BullishSubTypes
        /\ signals[i].status = "TP_HIT"
        /\ lastCall.op = "updateSignalStatus"
        /\ lastCall.at = signals[i].exitTime[1]
        /\ lastCall.price = signals[i].takeProfit

\* C4: an ACTIVE record older than the expiry becomes EXPIRED with
\* exitPrice equal to the observed price, even when that price is beyond TP or
\* SL; a record whose age is at most the expiry is never marked EXPIRED.
C4_Expiry ==
    [][\A p \in ObservedPrices : IsUpdateStep(p) =>
          \A i \in 1..Len(signals) :
              signals[i].status = "ACTIVE" =>
                 IF now - signals[i].entryTime > ExpiryTime
                 THEN /\ signals'[i].status = "EXPIRED"
                      /\ signals'[i].exitPrice = <<p>>
                 ELSE signals'[i].status # "EXPIRED"]_trackerVars

\* C4 witness: a bullish record expired at a price above its take-profit.
C4_Witness ==
    \E i \in 1..Len(signals) :
        /\ signals[i].status = "EXPIRED"
        /\ signals[i].signalSubType \in BullishSubTypes
        /\ signals[i].exitPrice[1] > signals[i].takeProfit
        /\ signals[i].exitTime[1] - signals[i].entryTime > ExpiryTime

\* C5: a record is terminal exactly when exitPrice, exitTime, duration, pnl
\* and pnlPercent are all set (they are set by the step that closes it), and
\* duration is (exitTime - entryTime) in minutes rounded to the nearest
\* integer, halves up.
C5_ExitFields ==
    \A i \in 1..Len(signals) :
        LET rec == signals[i]
            fields == {rec.exitPrice, rec.exitTime, rec.duration, rec.pnl, rec.pnlPercent}
        IN  IF rec.status = "ACTIVE"
            THEN fields = {Undefined}
            ELSE /\ Undefined \notin fields
                 /\ LET dt == rec.exitTime[1] - rec.entryTime
                        d  == rec.duration[1]
                    IN  /\ 60000 * d - 30000 <= dt
                        /\ dt < 60000 * d + 30000

\* C5 witness: a closed record whose duration was rounded up.
C5_Witness ==
    \E i \in 1..Len(signals) :
        /\ signals[i].status \in Terminal
        /\ signals[i].duration[1] * 60000 > signals[i].exitTime[1] - signals[i].entryTime

\* C12: every record registered by the tracker has takeProfit > entryPrice >
\* stopLoss if it is bullish and takeProfit < entryPrice < stopLoss if it is
\* bearish, entryPrice being the current price handed to the record call and
\* takeProfit / stopLoss those carried by the signal.  Violated.
C12_RecordOrdering ==
    \A i \in 1..Len(signals) :
        /\ signals[i].signalSubType \in BullishSubTypes =>
               /\ signals[i].takeProfit > signals[i].entryPrice
               /\ signals[i].entryPrice > signals[i].stopLoss
        /\ signals[i].signalSubType \in BearishSubTypes =>
               /\ signals[i].takeProfit < signals[i].entryPrice
               /\ signals[i].entryPrice < signals[i].stopLoss

(***************************************************************************)
(* The cooldown and novelty filters of SignalService (RSI divergence),     *)
(* MACDSignalService, MarketStructureService and VolumeDivergenceService.  *)
(* The four services are separate objects with the same shape; `svc` is    *)
(* the one a behaviour follows.  The detector's result for the candles of  *)
(* a call is the call's input; a detected signal is stamped Date.now().    *)
(* setSignalCooldown and resetSignalHistory have no caller in the          *)
(* repository and are left out.                                            *)
(***************************************************************************)
VARIABLES
    cnow,           \* Date.now() of the cooldown services
    svc,            \* the service followed
    last,           \* lastDivergenceSignal / lastMACDSignal / lastStructureSignal /
                    \* lastVolumeDivergenceSignal: Undefined (null) or Some(signal)
    lastCheck       \* history: candidate, result and time of the latest check

cooldownVars == <<cnow, svc, last, lastCheck>>

MaxCooldownTicks == 11
\* one step of the clock, in ms
CooldownClockStep == 60000

RsiSignalCooldown == 300000
MacdSignalCooldown == 300000
StructureSignalCooldown == 600000
VolumeDivergenceSignalCooldown == 180000

CooldownServices == {"RSI", "MACD", "STRUCTURE", "VOLUME_DIVERGENCE"}

SignalCooldown ==
    [RSI |-> RsiSignalCooldown, MACD |-> MacdSignalCooldown,
     STRUCTURE |-> StructureSignalCooldown,
     VOLUME_DIVERGENCE |-> VolumeDivergenceSignalCooldown]

CandidatePrices == {100000, 101005, 103000}
CandidateConfidences == {60, 85}

\* What detectRSIDivergence / detectMACDDivergence can return at time `at`.
DivergenceCandidates(at) ==
    {Undefined} \cup
    {Some([type |-> ty, price |-> p, timestamp |-> at]) :
         ty \in {"BULLISH", "BEARISH"}, p \in CandidatePrices}

\* What detectMarketStructureSignal can return at time `at`.
StructureCandidates(at) ==
    {Undefined} \cup
    {Some([type |-> StructureTypeOf[st], structureType |-> st,
           price |-> p, timestamp |-> at]) :
         st \in {"HH", "HL", "LH", "LL"}, p \in CandidatePrices}

\* What detectVolumeDivergence can return at time `at`.
VolumeDivergenceCandidates(at) ==
    {Undefined} \cup
    {Some([divergenceType |-> ty, price |-> p, confidence |-> c, timestamp |-> at]) :
         ty \in {"BULLISH", "BEARISH"}, p \in {100000, 103000},
         c \in CandidateConfidences}

\* (mutant) no cooldown at all
InCooldownNever(lastSignal, at, cooldown) == FALSE

\* if (this.lastSignal) { if (Date.now() - lastSignal.timestamp < cooldown) return null }
InCooldown(lastSignal, at, cooldown) ==
    /\ lastSignal # Undefined
    /\ at - lastSignal[1].timestamp < cooldown

\* Math.abs(a - b) > b * (pct / 100)
PriceDiffers(lastPrice, newPrice, pct) ==
    100 * Abs(lastPrice - newPrice) > pct * newPrice

\* The "is this a new signal" test of checkForDivergenceSignal.
DivergenceIsNew(lastSignal, signal) ==
    \/ lastSignal = Undefined
    \/ lastSignal[1].type # signal.type
    \/ PriceDiffers(lastSignal[1].price, signal.price, 1)

\* The same test of checkForMACDDivergenceSignal.
MACDDivergenceIsNew(lastSignal, signal) ==
    \/ lastSignal = Undefined
    \/ lastSignal[1].type # signal.type
    \/ PriceDiffers(lastSignal[1].price, signal.price, 1)

\* The same test of checkForStructureSignal.
StructureIsNew(lastSignal, signal) ==
    \/ lastSignal = Undefined
    \/ lastSignal[1].type # signal.type
    \/ lastSignal[1].structureType # signal.structureType
    \/ PriceDiffers(lastSignal[1].price, signal.price, 2)

\* (mutant) the volume divergence test on price, as the other services do
VolumeDivergenceIsNewByPrice(lastSignal, signal) ==
    \/ lastSignal = Undefined
    \/ lastSignal[1].divergenceType # signal.divergenceType
    \/ PriceDiffers(lastSignal[1].price, signal.price, 1)

\* The same test of checkForVolumeDivergenceSignal: on confidence, not price.
VolumeDivergenceIsNew(lastSignal, signal) ==
    \/ lastSignal = Undefined
    \/ lastSignal[1].divergenceType # signal.divergenceType
    \/ Abs(lastSignal[1].confidence - signal.confidence) > 20

\* The common shape of the four checks: cooldown, detection, novelty test.
CheckForSignal(service, candidate, isNew) ==
    /\ svc = service
    /\ LET returned == /\ ~InCooldown(last, cnow, SignalCooldown[service])
                       /\ candidate # Undefined
                       /\ isNew
       IN  /\ last' = IF returned THEN candidate ELSE last
           /\ lastCheck' = [candidate |-> candidate, returned |-> returned, at |-> cnow]
    /\ UNCHANGED <<cnow, svc>>

checkForDivergenceSignal ==
    \E c \in DivergenceCandidates(cnow) :
        CheckForSignal("RSI", c, c # Undefined /\ DivergenceIsNew(last, c[1]))

checkForMACDDivergenceSignal ==
    \E c \in DivergenceCandidates(cnow) :
        CheckForSignal("MACD", c, c # Undefined /\ MACDDivergenceIsNew(last, c[1]))

checkForStructureSignal ==
    \E c \in StructureCandidates(cnow) :
        CheckForSignal("STRUCTURE", c, c # Undefined /\ StructureIsNew(last, c[1]))

checkForVolumeDivergenceSignal ==
    \E c \in VolumeDivergenceCandidates(cnow) :
        CheckForSignal("VOLUME_DIVERGENCE", c,
                       c # Undefined /\ VolumeDivergenceIsNew(last, c[1]))

CooldownClock ==
    /\ cnow < MaxCooldownTicks * CooldownClockStep
    /\ cnow' = cnow + CooldownClockStep
    /\ UNCHANGED <<svc, last, lastCheck>>

CooldownInit ==
    /\ cnow = 0
    /\ svc \in CooldownServices
    /\ last = Undefined
    /\ lastCheck = [candidate |-> Undefined, returned |-> FALSE, at |-> 0]

\* the cooldown services while another service is followed
CooldownIdle == CooldownInit /\ svc = "RSI"

\* ---------------------------------------------------------------------------
\* Properties of the cooldown services (checked under SpecCooldown)
\* ---------------------------------------------------------------------------

\* The step is a check that returned its candidate.
ReturnedStep ==
    /\ lastCheck'.returned
    /\ lastCheck' # lastCheck
    /\ lastCheck'.at = cnow
    /\ cnow' = cnow

\* The step is a check made when a signal had been returned before and the
\* cooldown since that signal has elapsed.
CheckAfterCooldownStep ==
    /\ cnow' = cnow
    /\ lastCheck'.at = cnow
    /\ lastCheck'.candidate # Undefined
    /\ last # Undefined
    /\ cnow - last[1].timestamp >= SignalCooldown[svc]

\* BULLISH or BEARISH: the direction of a signal of the given service.
Direction(service, signal) ==
    IF service = "VOLUME_DIVERGENCE" THEN signal.divergenceType
    ELSE IF service = "STRUCTURE"
         THEN IF signal.structureType \in {"HH", "HL"} THEN "BULLISH" ELSE "BEARISH"
    ELSE signal.type

\* C2: in SignalService, MACDSignalService and MarketStructureService a
\* candidate detected less than the cooldown after the last returned signal is
\* not returned, so of two candidates (of the same type, and indeed of any
\* type) less than the cooldown apart at most one is returned.
C2_CooldownSeparates ==
    [][( /\ svc \in {"RSI", "MACD", "STRUCTURE"}
         /\ ReturnedStep
         /\ last # Undefined )
       => lastCheck'.candidate[1].timestamp - last[1].timestamp
              >= SignalCooldown[svc]]_cooldownVars

\* C2 witness: a candidate of the same type as the last returned signal, with
\* a price 3% away from it, was detected inside the cooldown and not returned.
C2_Witness ==
    /\ svc \in {"RSI", "MACD", "STRUCTURE"}
    /\ last # Undefined
    /\ lastCheck.candidate # Undefined
    /\ ~lastCheck.returned
    /\ lastCheck.candidate[1].type = last[1].type
    /\ Abs(lastCheck.candidate[1].price - last[1].price) = 3000
    /\ lastCheck.at > last[1].timestamp
    /\ lastCheck.at - last[1].timestamp < SignalCooldown[svc]

\* C6 as stated: after the cooldown, a candidate of the same direction as the
\* last returned signal is returned only if its price differs from that
\* signal's price by more than 1% (2% for market structure).  Violated.
C6_AsStated ==
    [][( /\ CheckAfterCooldownStep
         /\ lastCheck'.returned
         /\ Direction(svc, lastCheck'.candidate[1]) = Direction(svc, last[1]) )
       => 100 * Abs(lastCheck'.candidate[1].price - last[1].price)
              > (IF svc = "STRUCTURE" THEN 2 ELSE 1) * last[1].price]_cooldownVars

\* What makes a candidate new with respect to the last returned signal.
C6_IsNew(service, lastSignal, signal) ==
    LET farther(pct) ==
            100 * Abs(lastSignal.price - signal.price) > pct * signal.price
    IN  CASE service \in {"RSI", "MACD"} ->
                 lastSignal.type # signal.type \/ farther(1)
          [] service = "STRUCTURE" ->
                 \/ lastSignal.type # signal.type
                 \/ lastSignal.structureType # signal.structureType
                 \/ farther(2)
          [] service = "VOLUME_DIVERGENCE" ->
                 \/ lastSignal.divergenceType # signal.divergenceType
                 \/ Abs(lastSignal.confidence - signal.confidence) > 20

\* C6 (amended): after the cooldown a candidate is suppressed exactly when it
\* has the same type as the last returned signal (type for RSI and MACD, type
\* and structureType for market structure, divergenceType for volume
\* divergence) and its price is within 1% (RSI, MACD) or 2% (market structure)
\* of the candidate's own price from the last returned price, or, for volume
\* divergence, its confidence is within 20 points of the last returned one.
C6_NoveltyFilter ==
    [][CheckAfterCooldownStep =>
          (lastCheck'.returned <=> C6_IsNew(svc, last[1], lastCheck'.candidate[1]))
      ]_cooldownVars

\* C6 witness: after the cooldown a volume divergence candidate of the same
\* type is suppressed although its price is 3% away, its confidence being equal.
C6_Witness ==
    /\ svc = "VOLUME_DIVERGENCE"
    /\ last # Undefined
    /\ lastCheck.candidate # Undefined
    /\ ~lastCheck.returned
    /\ lastCheck.at - last[1].timestamp >= SignalCooldown[svc]
    /\ lastCheck.candidate[1].divergenceType = last[1].divergenceType
    /\ lastCheck.candidate[1].price # last[1].price
    /\ lastCheck.candidate[1].confidence = last[1].confidence

(***************************************************************************)
(* ScalpingService: four sub-checks behind one cooldown per                *)
(* symbol/timeframe.  The sub-checks read indicator values computed from   *)
(* the candles of the call; those values are the call's inputs (Undefined  *)
(* when the candles are too few for the indicator).                        *)
(***************************************************************************)
VARIABLES
    snow,           \* Date.now() of the scalping service
    tracker,        \* tracker[symbol][timeframe].lastAlertTime: Undefined or Some(t)
    scalpResult     \* history: the latest processMarketData call and what it returned

scalpVars == <<snow, tracker, scalpResult>>

MaxScalpTicks == 6
\* one step of the clock, in ms
ScalpClockStep == 60000

\* the scalping configuration AlertService builds
MinConfidence == 70
AlertCooldown == 300000
VolumeSpikeThreshold == 2
StochasticOversold == 20
StochasticOverbought == 80

ScalpSymbols == {"BTCUSDT", "ETHUSDT"}
ScalpTimeframes == {"1m"}

\* last two points of EMA 9 and EMA 21: a cross up, a cross down, a cross
\* too narrow for the confidence gate
EmaInputs ==
    {Undefined} \cup
    {Some([previousEma9 |-> q[1], previousEma21 |-> q[2],
           currentEma9 |-> q[3], currentEma21 |-> q[4]]) :
         q \in {<<1000, 1000, 1020, 1000>>, <<1020, 1000, 1000, 1020>>,
                <<1000, 1000, 1001, 1000>>}}

\* last two points of stochastic %K and %D: a cross up from oversold and a
\* cross down from overbought, each as deep as %K can go
StochasticInputs ==
    {Some([previousK |-> q[1], previousD |-> q[2], currentK |-> q[3], currentD |-> q[4]]) :
         q \in {<<0, 5, 1, 0>>, <<100, 95, 99, 100>>}}

\* current price with the last Bollinger bands
BollingerInputs ==
    {Some([currentPrice |-> p, currentLower |-> 99000, currentUpper |-> 101000]) :
         p \in {99000, 100000, 101000}}

\* volume of the latest candle and the average of the ones before
VolumeInputs ==
    {Some([currentVolume |-> q[1], averageVolume |-> q[2]]) :
         q \in {<<20, 10>>, <<19, 10>>, <<20, 0>>}}

\* a confidence is kept as an exact fraction [num, den]
Alert(type, signal, confidence, at) ==
    Some([type |-> type, signal |-> signal, confidence |-> confidence, timestamp |-> at])

\* Math.min(cap, a / b) as a fraction over b
CappedAt(cap, a, b) == [num |-> IF a > cap * b THEN cap * b ELSE a, den |-> b]

\* confidence >= level
AtLeast(confidence, level) == confidence.num >= level * confidence.den

\* detectEMACrossover: confidence = min(90, 60 + gap / base * 1000)
EmaConfidence(gap, base) == CappedAt(90, 60 * base + 1000 * gap, base)

EmaConfident(gap, base) == AtLeast(EmaConfidence(gap, base), MinConfidence)

detectEMACrossover(in, at) ==
    IF in = Undefined THEN Undefined
    ELSE LET e == in[1]
         IN  IF e.previousEma9 <= e.previousEma21 /\ e.currentEma9 > e.currentEma21
             THEN IF EmaConfident(e.currentEma9 - e.currentEma21, e.currentEma21)
                  THEN Alert("ema_crossover", "buy",
                             EmaConfidence(e.currentEma9 - e.currentEma21, e.currentEma21), at)
                  ELSE Undefined
             ELSE IF e.previousEma9 >= e.previousEma21 /\ e.currentEma9 < e.currentEma21
             THEN IF EmaConfident(e.currentEma21 - e.currentEma9, e.currentEma9)
                  THEN Alert("ema_crossover", "sell",
                             EmaConfidence(e.currentEma21 - e.currentEma9, e.currentEma9), at)
                  ELSE Undefined
             ELSE Undefined

\* detectStochasticSignal: confidence = min(85, 50 + excess * 0.5)
StochasticConfidence(excess) == CappedAt(85, 100 + excess, 2)

StochasticConfident(excess) == AtLeast(StochasticConfidence(excess), MinConfidence)

detectStochasticSignal(in, at) ==
    IF in = Undefined THEN Undefined
    ELSE LET s == in[1]
         IN  IF /\ s.previousK <= s.previousD /\ s.currentK > s.currentD
                /\ s.currentK < StochasticOversold + 10
             THEN IF StochasticConfident(StochasticOversold - s.currentK)
                  THEN Alert("stochastic_signal", "buy",
                             StochasticConfidence(StochasticOversold - s.currentK), at)
                  ELSE Undefined
             ELSE IF /\ s.previousK >= s.previousD /\ s.currentK < s.currentD
                     /\ s.currentK > StochasticOverbought - 10
             THEN IF StochasticConfident(s.currentK - StochasticOverbought)
                  THEN Alert("stochastic_signal", "sell",
                             StochasticConfidence(s.currentK - StochasticOverbought), at)
                  ELSE Undefined
             ELSE Undefined

detectBollingerSignal(in, at) ==
    IF in = Undefined THEN Undefined
    ELSE LET b == in[1]
             touch == IF 1000 * b.currentPrice <= 1001 * b.currentLower THEN <<"buy", 75>>
                      ELSE IF 1000 * b.currentPrice >= 999 * b.currentUpper THEN <<"sell", 75>>
                      ELSE IF b.currentPrice > b.currentUpper THEN <<"buy", 80>>
                      ELSE IF b.currentPrice < b.currentLower THEN <<"sell", 80>>
                      ELSE <<"none", 0>>
         IN  IF touch[1] # "none" /\ touch[2] >= MinConfidence
             THEN Alert("bollinger_squeeze", touch[1], [num |-> touch[2], den |-> 1], at)
             ELSE Undefined

\* detectVolumeSpike: confidence = min(90, 60 + (spikeRatio - 1) * 10)
VolumeSpikeConfidence(v) ==
    CappedAt(90, 60 * v.averageVolume + 10 * (v.currentVolume - v.averageVolume),
             v.averageVolume)

\* (mutant) a spike is any volume at or above the average
detectScalpVolumeSpikeAnyRise(in, at) ==
    LET v == in[1]
    IN  IF v.averageVolume = 0 THEN Undefined
        ELSE IF v.currentVolume >= v.averageVolume
        THEN Alert("volume_spike", "buy", VolumeSpikeConfidence(v), at) ELSE Undefined

\* detectVolumeSpike of the scalping service: no confidence gate
detectScalpVolumeSpike(in, at) ==
    LET v == in[1]
    IN  IF v.averageVolume = 0 THEN Undefined
        ELSE IF v.currentVolume >= VolumeSpikeThreshold * v.averageVolume
        THEN Alert("volume_spike", "buy", VolumeSpikeConfidence(v), at) ELSE Undefined

\* (mutant) no cooldown
shouldSendAlertAlways(symbol, timeframe, at) == TRUE

shouldSendAlert(symbol, timeframe, at) ==
    \/ tracker[<<symbol, timeframe>>] = Undefined
    \/ at - tracker[<<symbol, timeframe>>][1] >= AlertCooldown

\* the alerts among the four results, in the order of the sub-checks
PushedAlerts(results) ==
    LET found == SelectSeq(results, LAMBDA r : r # Undefined)
    IN  [i \in 1..Len(found) |-> found[i][1]]

processMarketData(symbol, timeframe, ema, stoch, boll, vol) ==
    \E detected \in {PushedAlerts(<< detectEMACrossover(ema, snow),
                                     detectStochasticSignal(stoch, snow),
                                     detectBollingerSignal(boll, snow),
                                     detectScalpVolumeSpike(vol, snow) >>)} :
      \E alerts \in {IF shouldSendAlert(symbol, timeframe, snow) THEN detected ELSE <<>>} :
        /\ tracker' = IF alerts # <<>>
                      THEN [tracker EXCEPT ![<<symbol, timeframe>>] = Some(snow)]
                      ELSE tracker
        /\ scalpResult' = [symbol |-> symbol, timeframe |-> timeframe, at |-> snow,
                           detected |-> detected, alerts |-> alerts]
        /\ UNCHANGED snow

ProcessMarketData ==
    \E s \in ScalpSymbols, tf \in ScalpTimeframes, e \in EmaInputs,
       st \in StochasticInputs, b \in BollingerInputs, v \in VolumeInputs :
        processMarketData(s, tf, e, st, b, v)

ScalpClock ==
    /\ snow < MaxScalpTicks * ScalpClockStep
    /\ snow' = snow + ScalpClockStep
    /\ UNCHANGED <<tracker, scalpResult>>

ScalpInit ==
    /\ snow = 0
    /\ tracker = [k \in ScalpSymbols \X ScalpTimeframes |-> Undefined]
    /\ scalpResult = [symbol |-> "none", timeframe |-> "none", at |-> 0,
                      detected |-> <<>>, alerts |-> <<>>]

\* ---------------------------------------------------------------------------
\* Properties of the scalping service (checked under SpecScalping)
\* ---------------------------------------------------------------------------

\* The step is a processMarketData call.
ScalpCallStep ==
    /\ snow' = snow
    /\ scalpResult'.at = snow
    /\ scalpResult'.symbol # "none"

\* C7 as stated: once a sub-check has emitted an alert for a symbol/timeframe,
\* no sub-check emits another alert for it until alertCooldown has elapsed:
\* any two alerts for one symbol/timeframe are at least alertCooldown apart,
\* those of one call included.  Violated.
C7_AsStated ==
    [][ScalpCallStep =>
          LET out == scalpResult'.alerts
              key == <<scalpResult'.symbol, scalpResult'.timeframe>>
          IN  /\ \A i \in 1..Len(out) : \A j \in (i + 1)..Len(out) :
                     out[j].timestamp - out[i].timestamp >= AlertCooldown
              /\ \A i \in 1..Len(out) :
                     tracker[key] # Undefined =>
                         out[i].timestamp - tracker[key][1] >= AlertCooldown
      ]_scalpVars

\* C7 (amended): the cooldown is tested once, at the start of a call.  A call
\* made less than alertCooldown after the last alert for its symbol/timeframe
\* returns no alert and leaves the tracker alone; any other call returns the
\* alert of every sub-check that detects (up to four in the one call) and, if
\* there is one, sets lastAlertTime of that symbol/timeframe only.
C7_SharedCooldown ==
    [][ScalpCallStep =>
          LET key == <<scalpResult'.symbol, scalpResult'.timeframe>>
          IN  IF tracker[key] # Undefined /\ snow - tracker[key][1] < AlertCooldown
              THEN /\ scalpResult'.alerts = <<>>
                   /\ tracker' = tracker
              ELSE /\ scalpResult'.alerts = scalpResult'.detected
                   /\ \A k \in DOMAIN tracker :
                         tracker'[k] = IF k = key /\ scalpResult'.detected # <<>>
                                       THEN <<snow>> ELSE tracker[k]
      ]_scalpVars

\* C7 witness: a call inside the cooldown of its symbol/timeframe whose
\* sub-checks detected two signals returned none, the other symbol having had
\* no alert yet.
C7_Witness ==
    /\ scalpResult.symbol # "none"
    /\ Len(scalpResult.detected) >= 2
    /\ scalpResult.alerts = <<>>
    /\ tracker[<<scalpResult.symbol, scalpResult.timeframe>>] # Undefined
    /\ scalpResult.at > tracker[<<scalpResult.symbol, scalpResult.timeframe>>][1]
    /\ \E k \in DOMAIN tracker : tracker[k] = Undefined

VARIABLES
    task            \* history: the latest executeBotTask and what it did

botVars == <<task>>

\* calculateRSI(marketData.klineData, 14)
RsiPeriod == 14

\* the detector calls, in the order of the array literal
BotDetectors ==
    <<"RSI_DIVERGENCE", "MACD_DIVERGENCE", "MARKET_STRUCTURE",
      "VOLUME_SPIKE", "VOLUME_DIVERGENCE">>

\* the fewest candles with which each detector can return a signal
MinCandles ==
    [RSI_DIVERGENCE |-> 30, MACD_DIVERGENCE |-> 50, MARKET_STRUCTURE |-> 20,
     VOLUME_SPIKE |-> 21, VOLUME_DIVERGENCE |-> 4]

CandleCounts == {3, 10, 14, 15, 21, 30, 50}

\* calculateRSI: throws when klineData.length < period + 1
CalculateRSIThrows(n, period) == n < period + 1

\* Does the call of this detector throw on n candles?
DetectorThrows(detector, n) ==
    detector = "RSI_DIVERGENCE" /\ CalculateRSIThrows(n, RsiPeriod)

\* The detector calls that complete: those before the first one that throws.
CompletedCalls(n) ==
    LET throwing == {i \in 1..Len(BotDetectors) : DetectorThrows(BotDetectors[i], n)}
        stop == IF throwing = {} THEN Len(BotDetectors) + 1
                ELSE CHOOSE i \in throwing : \A j \in throwing : i <= j
    IN  SubSeq(BotDetectors, 1, stop - 1)

\* The signals the completed calls return.
ReturnedSignals(completed, n, patterns) ==
    {completed[i] : i \in {j \in 1..Len(completed) :
                              /\ completed[j] \in patterns
                              /\ n >= MinCandles[completed[j]]}}

\* The sends of the try block, in order.
WantedMessages(returned) ==
    (IF "VOLUME_SPIKE" \in returned THEN <<"VOLUME_SPIKE">> ELSE <<>>)
    \o (IF "VOLUME_DIVERGENCE" \in returned THEN <<"VOLUME_DIVERGENCE">> ELSE <<>>)
    \o (IF returned \cap {"RSI_DIVERGENCE", "MACD_DIVERGENCE", "MARKET_STRUCTURE"} # {}
        THEN <<"MULTI_SIGNAL">> ELSE <<>>)

executeBotTask(n, patterns, fetchOk, telegramUp) ==
    LET completed == IF fetchOk THEN CompletedCalls(n) ELSE <<>>
        thrown    == ~fetchOk \/ Len(completed) < Len(BotDetectors)
        returned  == IF thrown THEN {} ELSE ReturnedSignals(completed, n, patterns)
        wanted    == WantedMessages(returned)
        \* a failed send throws too, and the catch block's own send then fails
        sent      == IF ~telegramUp THEN <<>>
                     ELSE IF thrown THEN <<"ERROR">> ELSE wanted
    IN  task' = [candles |-> n, patterns |-> patterns, fetched |-> fetchOk,
                 telegramUp |-> telegramUp, ran |-> completed,
                 signals |-> returned, sent |-> sent]

ExecuteBotTask ==
    \E n \in CandleCounts, patterns \in SUBSET {BotDetectors[i] : i \in 1..Len(BotDetectors)},
       fetchOk \in BOOLEAN, telegramUp \in BOOLEAN :
        executeBotTask(n, patterns, fetchOk, telegramUp)

BotInit ==
    task = [candles |-> 0, patterns |-> {}, fetched |-> FALSE, telegramUp |-> TRUE,
            ran |-> <<>>, signals |-> {}, sent |-> <<>>]

\* ---------------------------------------------------------------------------
\* Properties of executeBotTask (checked under SpecBotTask)
\* ---------------------------------------------------------------------------

\* The message that reports a detector's signal.
C8_MessageOf(detector) ==
    IF detector \in {"VOLUME_SPIKE", "VOLUME_DIVERGENCE"} THEN detector ELSE "MULTI_SIGNAL"

\* C8: in a tick whose candles were fetched, a detector that throws (the RSI
\* calculation on fewer than 15 candles) does not stop its siblings: each
\* sibling whose pattern is in candles enough for it runs and has its signal
\* reported.  Violated.
C8_DetectorIsolation ==
    (task.fetched /\ task.telegramUp) =>
        \A i \in 1..Len(BotDetectors) :
            LET d == BotDetectors[i]
            IN  ( /\ ~DetectorThrows(d, task.candles)
                  /\ d \in task.patterns
                  /\ task.candles >= MinCandles[d] )
                => /\ \E j \in 1..Len(task.ran) : task.ran[j] = d
                   /\ \E k \in 1..Len(task.sent) : task.sent[k] = C8_MessageOf(d)

(***************************************************************************)
(* BotService.executeBotTask of the multi-pair bot: fetch every            *)
(* pair/timeframe, evaluate each, add the balance alert, send.  What a     *)
(* tick is given: the outcome of each fetch, the alerts the detectors find *)
(* in each pair's candles, the balance alert, whether Telegram works.      *)
(* The detectors of this path return null on candles they cannot use; none *)
(* of them throws.                                                         *)
(***************************************************************************)
VARIABLES
    tick            \* history: the latest executeBotTask and what it did

multiVars == <<tick>>

\* config.pairs x config.timeframes, in the order of the loops
KeyOrder ==
    << <<"BTCUSDT", "1m">>, <<"BTCUSDT", "5m">>, <<"ETHUSDT", "1m">> >>

Keys == {KeyOrder[i] : i \in 1..Len(KeyOrder)}

\* getMarketData of one pair/timeframe: rejects, resolves without candles,
\* resolves with candles
FetchOutcomes == {"FAILED", "EMPTY", "CANDLES"}

\* the alert types of processMarketData, in the order of its checks
KindOrder == <<"spike", "divergence", "rsi_divergence">>

\* what the detectors can find in one pair's candles
PatternSets == {{"spike"}, {"divergence", "rsi_divergence"}}

\* (mutant) the fetches joined without the per-request catch
fetchAllMarketDataNoCatch(outcome) ==
    [rejected |-> \E k \in Keys : outcome[k] = "FAILED",
     data |-> [k \in Keys |->
                  [symbol |-> k[1], currentPrice |-> 100000,
                   klineLength |-> IF outcome[k] = "CANDLES" THEN 100 ELSE 0]]]

\* fetchAllMarketData: every request has its own catch, which stores an empty
\* structure; Promise.allSettled never rejects.
fetchAllMarketData(outcome) ==
    [rejected |-> FALSE,
     data |-> [k \in Keys |->
                  IF outcome[k] = "FAILED"
                  THEN [symbol |-> k[1], currentPrice |-> 0, klineLength |-> 0]
                  ELSE [symbol |-> k[1], currentPrice |-> 100000,
                        klineLength |-> IF outcome[k] = "CANDLES" THEN 100 ELSE 0]]]

\* if (!data || !data.klineData.length) continue
SkipsPair(data) == data.klineLength = 0

\* the alerts pushed for one pair/timeframe
AlertsOfPair(key, found) ==
    LET kinds == SelectSeq(KindOrder, LAMBDA kind : kind \in found)
    IN  [i \in 1..Len(kinds) |-> [type |-> kinds[i], symbol |-> key[1], timeframe |-> key[2]]]

\* AlertService.processMarketData from the i-th pair/timeframe on
RECURSIVE ProcessFrom(_, _, _)
ProcessFrom(i, marketData, patterns) ==
    IF i > Len(KeyOrder) THEN <<>>
    ELSE (IF SkipsPair(marketData[KeyOrder[i]]) THEN <<>>
          ELSE AlertsOfPair(KeyOrder[i], patterns[KeyOrder[i]]))
         \o ProcessFrom(i + 1, marketData, patterns)

\* sendAlerts: one try/catch per alert; types it has no branch for are passed over
sendAlerts(alerts, telegramUp) ==
    SelectSeq(alerts, LAMBDA a : telegramUp /\ a.type \in {"spike", "divergence", "rsi_divergence"})

executeMultiPairTask(outcome, patterns, balance, telegramUp) ==
    \E fetched \in {fetchAllMarketData(outcome)} :
      \E found \in {IF fetched.rejected THEN <<>>
                    ELSE ProcessFrom(1, fetched.data, patterns)
                         \o (IF balance
                             THEN <<[type |-> "okx_balance", symbol |-> "", timeframe |-> ""]>>
                             ELSE <<>>)} :
        tick' = [outcome |-> outcome, patterns |-> patterns, telegramUp |-> telegramUp,
                 aborted |-> fetched.rejected,
                 evaluated |-> IF fetched.rejected THEN {}
                               ELSE {k \in Keys : ~SkipsPair(fetched.data[k])},
                 alerts |-> found,
                 delivered |-> sendAlerts(found, telegramUp),
                 errorSent |-> fetched.rejected /\ telegramUp]

ExecuteMultiPairTask ==
    \E outcome \in [Keys -> FetchOutcomes], patterns \in [Keys -> PatternSets],
       balance \in BOOLEAN, telegramUp \in BOOLEAN :
        executeMultiPairTask(outcome, patterns, balance, telegramUp)

MultiInit ==
    tick = [outcome |-> [k \in Keys |-> "EMPTY"], patterns |-> [k \in Keys |-> {"spike"}],
            telegramUp |-> TRUE, aborted |-> FALSE, evaluated |-> {},
            alerts |-> <<>>, delivered |-> <<>>, errorSent |-> FALSE]

\* ---------------------------------------------------------------------------
\* Properties of the multi-pair tick (checked under SpecMultiPair)
\* ---------------------------------------------------------------------------

VARIABLES
    candles         \* klineData: a sequence of [close, volume]

pivotVars == <<candles>>

MaxCandles == 5
\* getDefaultDivergenceConfig().pivotLength
PivotLength == 2
\* VolumeDivergenceService config.lookbackPeriod
LookbackPeriod == 3

Closes == {100, 101, 102}
Volumes == {10, 20}

ClosePrices(klineData) == [i \in 1..Len(klineData) |-> klineData[i].close]
VolumeValues(klineData) == [i \in 1..Len(klineData) |-> klineData[i].volume]

\* klineData.slice(-count)
LastOf(seq, count) ==
    IF Len(seq) <= count THEN seq ELSE SubSeq(seq, Len(seq) - count + 1, Len(seq))

\* A value of the series whose typeof is not "number" (undefined, null); the
\* numbers of the series are positive.
NotANumber == -1
IsNumber(v) == v # NotANumber

\* (mutant) a neighbour that is not a number disqualifies the index
detectPivotHighsNoSkip(data, leftBars, rightBars) ==
    LET isPivot(i) == /\ IsNumber(data[i])
                      /\ \A j \in (i - leftBars)..(i - 1) :
                            IsNumber(data[j]) /\ data[j] < data[i]
                      /\ \A j \in (i + 1)..(i + rightBars) :
                            IsNumber(data[j]) /\ data[j] < data[i]
        indices == SelectSeq([i \in 1..Len(data) |-> i],
                             LAMBDA i : i > leftBars /\ i <= Len(data) - rightBars /\ isPivot(i))
    IN  [k \in 1..Len(indices) |-> [value |-> data[indices[k]], index |-> indices[k]]]

\* detectPivotHighs: index i (1-based here) is a pivot high when it is a number
\* and every number among the leftBars values before it and the rightBars
\* values after it is smaller
detectPivotHighs(data, leftBars, rightBars) ==
    LET isPivot(i) == /\ IsNumber(data[i])
                      /\ \A j \in (i - leftBars)..(i - 1) :
                            IsNumber(data[j]) => data[j] < data[i]
                      /\ \A j \in (i + 1)..(i + rightBars) :
                            IsNumber(data[j]) => data[j] < data[i]
        indices == SelectSeq([i \in 1..Len(data) |-> i],
                             LAMBDA i : i > leftBars /\ i <= Len(data) - rightBars /\ isPivot(i))
    IN  [k \in 1..Len(indices) |-> [value |-> data[indices[k]], index |-> indices[k]]]

\* (mutant) pivot lows found by looking at the left neighbours only
detectPivotLowsLeftOnly(data, leftBars, rightBars) ==
    LET isPivot(i) == \A j \in (i - leftBars)..(i - 1) : data[j] > data[i]
        indices == SelectSeq([i \in 1..Len(data) |-> i],
                             LAMBDA i : i > leftBars /\ i <= Len(data) - rightBars /\ isPivot(i))
    IN  [k \in 1..Len(indices) |-> [value |-> data[indices[k]], index |-> indices[k]]]

\* detectPivotLows: the mirror image
detectPivotLows(data, leftBars, rightBars) ==
    LET isPivot(i) == /\ IsNumber(data[i])
                      /\ \A j \in (i - leftBars)..(i - 1) :
                            IsNumber(data[j]) => data[j] > data[i]
                      /\ \A j \in (i + 1)..(i + rightBars) :
                            IsNumber(data[j]) => data[j] > data[i]
        indices == SelectSeq([i \in 1..Len(data) |-> i],
                             LAMBDA i : i > leftBars /\ i <= Len(data) - rightBars /\ isPivot(i))
    IN  [k \in 1..Len(indices) |-> [value |-> data[indices[k]], index |-> indices[k]]]

\* calculateTrend: more rises than falls, more falls than rises, or neither
calculateTrend(values) ==
    LET rises == Cardinality({i \in 2..Len(values) : values[i] > values[i - 1]})
        falls == Cardinality({i \in 2..Len(values) : values[i] < values[i - 1]})
    IN  IF rises > falls THEN "INCREASING"
        ELSE IF falls > rises THEN "DECREASING" ELSE "STABLE"

\* detectVolumeDivergence: the divergence type found in the last
\* lookbackPeriod + 1 candles, the last one included; "NONE" for null
detectVolumeDivergence(klineData, lookbackPeriod) ==
    IF Len(klineData) < lookbackPeriod + 1 THEN "NONE"
    ELSE LET recentData  == LastOf(klineData, lookbackPeriod + 1)
             prices      == ClosePrices(recentData)
             volumes     == VolumeValues(recentData)
             priceTrend  == calculateTrend(prices)
             volumeTrend == calculateTrend(volumes)
             \* volumeChange > priceChange * 1.5, both relative to the first value
             volumeFallsMore ==
                 2 * Abs(volumes[Len(volumes)] - volumes[1]) * prices[1]
                     > 3 * Abs(prices[Len(prices)] - prices[1]) * volumes[1]
         IN  IF priceTrend = "INCREASING" /\ volumeTrend = "DECREASING" THEN "BEARISH"
             ELSE IF /\ priceTrend = "DECREASING" /\ volumeTrend = "DECREASING"
                     /\ volumeFallsMore THEN "BULLISH"
             ELSE "NONE"

\* the last candle closes and the next one opens
CandleOpens ==
    /\ Len(candles) < MaxCandles
    /\ \E c \in Closes, v \in Volumes :
          candles' = Append(candles, [close |-> c, volume |-> v])

\* the last candle, still open, trades on
LastCandleMoves ==
    /\ candles # <<>>
    /\ \E c \in Closes, v \in Volumes :
          /\ [close |-> c, volume |-> v] # candles[Len(candles)]
          /\ candles' = [candles EXCEPT ![Len(candles)] = [close |-> c, volume |-> v]]

PivotInit == candles = <<>>

\* ---------------------------------------------------------------------------
\* Properties of pivot and divergence detection (checked under SpecPivot)
\* ---------------------------------------------------------------------------

\* The step changes the last candle and nothing else.
OnlyLastCandleChanges ==
    /\ candles # <<>>
    /\ Len(candles') = Len(candles)
    /\ \A i \in 1..(Len(candles) - 1) : candles'[i] = candles[i]
    /\ candles'[Len(candles)] # candles[Len(candles)]

\* leftBars / rightBars handed to the pivot detectors
PivotBars == 0..2

PivotIndices(pivots) == {pivots[k].index : k \in 1..Len(pivots)}

\* the indices returned both as a pivot high and as a pivot low
CommonPivots(data, leftBars, rightBars) ==
    PivotIndices(detectPivotHighs(data, leftBars, rightBars))
        \cap PivotIndices(detectPivotLows(data, leftBars, rightBars))

\* C13 as stated: for the same series and the same leftBars / rightBars no index
\* is returned both by detectPivotHighs and by detectPivotLows.  Violated with
\* leftBars = rightBars = 0, where every index is returned by both.
C13_AsStated ==
    \A leftBars \in PivotBars, rightBars \in PivotBars :
        CommonPivots(ClosePrices(candles), leftBars, rightBars) = {}

\* C13: for the same series and the same leftBars / rightBars, at least one of
\* them positive, no index is returned both by detectPivotHighs and by
\* detectPivotLows.
C13_DisjointPivots ==
    \A leftBars \in PivotBars, rightBars \in PivotBars :
        leftBars + rightBars >= 1 =>
            CommonPivots(ClosePrices(candles), leftBars, rightBars) = {}

\* a series with both a pivot high and a pivot low for the same window
C13_Witness ==
    \E leftBars \in PivotBars, rightBars \in PivotBars :
        /\ leftBars + rightBars >= 1
        /\ detectPivotHighs(ClosePrices(candles), leftBars, rightBars) # <<>>
        /\ detectPivotLows(ClosePrices(candles), leftBars, rightBars) # <<>>

\* C10: the last candle is never used by pivot or divergence detection:
\* changing only the last candle changes neither the volume divergence found
\* nor the pivot highs and lows found in the closes.  Violated.
C10_LastCandleUnused ==
    [][OnlyLastCandleChanges =>
          /\ detectVolumeDivergence(candles', LookbackPeriod)
                 = detectVolumeDivergence(candles, LookbackPeriod)
          /\ detectPivotHighs(ClosePrices(candles'), PivotLength, PivotLength)
                 = detectPivotHighs(ClosePrices(candles), PivotLength, PivotLength)
          /\ detectPivotLows(ClosePrices(candles'), PivotLength, PivotLength)
                 = detectPivotLows(ClosePrices(candles), PivotLength, PivotLength)
      ]_pivotVars

(***************************************************************************)
(* TP/SL calculation (tpsl.utils): calculateATR, calculateSupportResistance *)
(* calculateRSIDivergenceTPSL and calculateMarketStructureTPSL under the    *)
(* default configuration.  Prices are integers; a result is kept multiplied *)
(* by TpslScale so that percentages and the average true range are exact.   *)
(***************************************************************************)
VARIABLES
    tpsl            \* the last TP/SL calculation: its arguments and its result

tpslVars == <<tpsl>>

\* calculateATR(klineData, period = 14)
AtrPeriod == 14
\* calculateSupportResistance(klineData, lookbackPeriod = 20)
SupportLookback == 20
\* getDefaultTPSLConfig().rsiDivergence: 2.5 %, 1.2 %, ATR x 1.5
RsiDivTpPermille == 25
RsiDivSlPermille == 12
RsiDivAtrHalves == 3
\* getDefaultTPSLConfig().marketStructure: 2.0 %, 1.0 %, structureBased
StructTpPermille == 20
StructSlPermille == 10

\* results are kept as value * 1000 * 2 * AtrPeriod
TpslScale == 1000 * 2 * AtrPeriod

TpslEntries == {100, 1000}
HistoryLengths == {0, 14, 15, 19, 20}
\* <<high, low, close>> of the candles of a history
CandleShapes == {<<100, 100, 100>>, <<101, 99, 100>>, <<120, 110, 115>>}
StructureTypes == {"HH", "HL", "LH", "LL"}

History(n, shape) == [i \in 1..n |-> [high |-> shape[1], low |-> shape[2], close |-> shape[3]]]

MaxOf(S) == CHOOSE x \in S : \A y \in S : y <= x
MinOf(S) == CHOOSE x \in S : \A y \in S : x <= y

RECURSIVE SumSeq(_)
SumSeq(seq) == IF seq = <<>> THEN 0 ELSE Head(seq) + SumSeq(Tail(seq))

\* calculateATR, times its period: 0 on fewer than period + 1 candles, else
\* the sum of the last `period` true ranges
calculateATR(klineData, period) ==
    IF Len(klineData) < period + 1 THEN 0
    ELSE LET trueRanges ==
                 [i \in 1..(Len(klineData) - 1) |->
                     MaxOf({klineData[i + 1].high - klineData[i + 1].low,
                            Abs(klineData[i + 1].high - klineData[i].close),
                            Abs(klineData[i + 1].low - klineData[i].close)})]
         IN  SumSeq(LastOf(trueRanges, period))

\* calculateSupportResistance: {0, 0} on fewer than lookbackPeriod candles
calculateSupportResistance(klineData, lookbackPeriod) ==
    IF Len(klineData) < lookbackPeriod THEN [support |-> 0, resistance |-> 0]
    ELSE LET recentData == LastOf(klineData, lookbackPeriod)
         IN  [support    |-> MinOf({recentData[i].low : i \in 1..Len(recentData)}),
              resistance |-> MaxOf({recentData[i].high : i \in 1..Len(recentData)})]

\* (mutant) reward / risk without the guard on risk
RiskRewardNoGuard(entryPrice, levels) ==
    [takeProfit |-> levels.takeProfit, stopLoss |-> levels.stopLoss,
     riskRewardRatio |-> Ratio(Abs(levels.takeProfit - TpslScale * entryPrice),
                               Abs(TpslScale * entryPrice - levels.stopLoss))]

\* risk = |entryPrice - stopLoss|, reward = |takeProfit - entryPrice|,
\* riskRewardRatio = risk > 0 ? reward / risk : 0, and the result returned
RiskReward(entryPrice, levels) ==
    LET risk == Abs(TpslScale * entryPrice - levels.stopLoss)
        reward == Abs(levels.takeProfit - TpslScale * entryPrice)
    IN  [takeProfit |-> levels.takeProfit, stopLoss |-> levels.stopLoss,
         riskRewardRatio |-> IF risk > 0 THEN Ratio(reward, risk) ELSE Ratio(0, 1)]

\* calculateRSIDivergenceTPSL: takeProfit and stopLoss, times TpslScale
calculateRSIDivergenceTPSL(entryPrice, isBullish, klineData) ==
    LET atr14 == calculateATR(klineData, AtrPeriod)
        \* atr * atrMultiplier, times TpslScale
        atrSL == 1000 * RsiDivAtrHalves * atr14
    IN  RiskReward(entryPrice,
        IF isBullish
        THEN [takeProfit |-> 2 * AtrPeriod * entryPrice * (1000 + RsiDivTpPermille),
              stopLoss   |-> MaxOf({2 * AtrPeriod * entryPrice * (1000 - RsiDivSlPermille),
                                    TpslScale * entryPrice - atrSL})]
        ELSE [takeProfit |-> 2 * AtrPeriod * entryPrice * (1000 - RsiDivTpPermille),
              stopLoss   |-> MinOf({2 * AtrPeriod * entryPrice * (1000 + RsiDivSlPermille),
                                    TpslScale * entryPrice + atrSL})])

\* calculateMarketStructureTPSL with config.structureBased
calculateMarketStructureTPSL(entryPrice, structureType, klineData) ==
    LET atr14 == calculateATR(klineData, AtrPeriod)
        sr    == calculateSupportResistance(klineData, SupportLookback)
        \* atr * 0.5, times TpslScale
        halfAtr == 1000 * atr14
    IN  RiskReward(entryPrice,
        IF structureType \in {"HH", "HL"}
        THEN [takeProfit |-> 2 * AtrPeriod * entryPrice * (1000 + StructTpPermille),
              stopLoss   |-> MaxOf({2 * AtrPeriod * entryPrice * (1000 - StructSlPermille),
                                    TpslScale * sr.support - halfAtr})]
        ELSE [takeProfit |-> 2 * AtrPeriod * entryPrice * (1000 - StructTpPermille),
              stopLoss   |-> MinOf({2 * AtrPeriod * entryPrice * (1000 + StructSlPermille),
                                    TpslScale * sr.resistance + halfAtr})])

\* the results of the calculations on the histories used, computed once
RsiDivergenceTPSLResults ==
    [entryPrice \in TpslEntries, isBullish \in BOOLEAN,
     n \in HistoryLengths, shape \in CandleShapes |->
        calculateRSIDivergenceTPSL(entryPrice, isBullish, History(n, shape))]
MarketStructureTPSLResults ==
    [entryPrice \in TpslEntries, structureType \in StructureTypes,
     n \in HistoryLengths, shape \in CandleShapes |->
        calculateMarketStructureTPSL(entryPrice, structureType, History(n, shape))]

CalculateRSIDivergenceTPSL ==
    \E entryPrice \in TpslEntries, isBullish \in BOOLEAN,
       n \in HistoryLengths, shape \in CandleShapes :
        tpsl' = [fn |-> "RSI_DIVERGENCE", entry |-> entryPrice, bullish |-> isBullish,
                 candles |-> n, shape |-> shape,
                 result |-> RsiDivergenceTPSLResults[entryPrice, isBullish, n, shape]]

CalculateMarketStructureTPSL ==
    \E entryPrice \in TpslEntries, structureType \in StructureTypes,
       n \in HistoryLengths, shape \in CandleShapes :
        tpsl' = [fn |-> "MARKET_STRUCTURE", entry |-> entryPrice,
                 bullish |-> structureType \in {"HH", "HL"},
                 candles |-> n, shape |-> shape,
                 result |-> MarketStructureTPSLResults[entryPrice, structureType, n, shape]]

TpslInit ==
    tpsl = [fn |-> "NONE", entry |-> 0, bullish |-> TRUE, candles |-> 0,
            shape |-> <<0, 0, 0>>,
            result |-> [takeProfit |-> 0, stopLoss |-> 0, riskRewardRatio |-> Ratio(0, 1)]]

\* ---------------------------------------------------------------------------
\* Properties of the TP/SL calculation (checked under SpecTpsl)
\* ---------------------------------------------------------------------------

\* C11: every TP/SL calculation returns takeProfit > entry > stopLoss for a
\* bullish signal and takeProfit < entry < stopLoss for a bearish one, whatever
\* the positive entry price and the candle history.  Violated.
C11_TpSlOrdering ==
    tpsl.fn # "NONE" =>
        IF tpsl.bullish
        THEN /\ tpsl.result.takeProfit > TpslScale * tpsl.entry
             /\ TpslScale * tpsl.entry > tpsl.result.stopLoss
        ELSE /\ tpsl.result.takeProfit < TpslScale * tpsl.entry
             /\ TpslScale * tpsl.entry < tpsl.result.stopLoss

(***************************************************************************)
(* RSI: calculateRSI (rsi.utils) and RSIDivergenceService.calculateRSI.     *)
(* Averages are kept as exact fractions: after k smoothing steps the        *)
(* average gain and the average loss share the denominator period^(k+1),    *)
(* so only their numerators are carried.  An RSI value is a fraction        *)
(* [num, den].                                                              *)
(***************************************************************************)
VARIABLES
    rsiCall         \* the last RSI calculation: its arguments and its result

rsiVars == <<rsiCall>>

\* the periods and close prices the calculations are run with
RsiPeriods == {2, 3}
RsiCloses == {100, 101, 102}
RsiSeries == UNION {[1..n -> RsiCloses] : n \in 3..5}

Gains(closes) ==
    [i \in 1..(Len(closes) - 1) |->
        IF closes[i + 1] > closes[i] THEN closes[i + 1] - closes[i] ELSE 0]
Losses(closes) ==
    [i \in 1..(Len(closes) - 1) |->
        IF closes[i + 1] < closes[i] THEN closes[i] - closes[i + 1] ELSE 0]

RECURSIVE Pow(_, _)
Pow(b, e) == IF e = 0 THEN 1 ELSE b * Pow(b, e - 1)

\* Wilder's smoothing of rsi.utils: the numerator of the average over the
\* first i changes, the denominator being period^(i - period + 1)
RECURSIVE Smoothed(_, _, _)
Smoothed(changes, period, i) ==
    IF i = period THEN SumSeq(SubSeq(changes, 1, period))
    ELSE Smoothed(changes, period, i - 1) * (period - 1)
             + changes[i] * Pow(period, i - period)

\* Math.round(x * 100) / 100 of the fraction a / b, as a fraction over 100
Round2(a, b) == [num |-> RoundDiv(100 * a, b), den |-> 100]

\* calculateRSI of rsi.utils, for klineData.length >= period + 1
calculateRSI(closes, period) ==
    LET avgGain == Smoothed(Gains(closes), period, Len(closes) - 1)
        avgLoss == Smoothed(Losses(closes), period, Len(closes) - 1)
    IN  \* rs = avgLoss === 0 ? 100 : avgGain / avgLoss; rsi = 100 - 100 / (1 + rs)
        IF avgLoss = 0 THEN Round2(100 * 100, 101)
        ELSE Round2(100 * avgGain, avgGain + avgLoss)

\* the average loss calculateRSI ends with is 0
SmoothedLossIsZero(closes, period) ==
    Smoothed(Losses(closes), period, Len(closes) - 1) = 0

\* RSIDivergenceService.calculateRSI: the last value of the series, computed
\* from the last period + 1 closes
serviceCalculateRSI(closes, period) ==
    LET recentCloses == LastOf(closes, period + 1)
        avgGain == SumSeq(Gains(recentCloses))
        avgLoss == SumSeq(Losses(recentCloses))
    IN  IF avgLoss = 0 THEN [num |-> 100, den |-> 1]
        ELSE [num |-> 100 * avgGain, den |-> avgGain + avgLoss]

WindowLossIsZero(closes, period) ==
    SumSeq(Losses(LastOf(closes, period + 1))) = 0

CalculateRSI ==
    \E period \in RsiPeriods, closes \in RsiSeries :
        /\ Len(closes) >= period + 1
        /\ rsiCall' = [fn |-> "calculateRSI", closes |-> closes, period |-> period,
                       lossIsZero |-> SmoothedLossIsZero(closes, period),
                       rsi |-> calculateRSI(closes, period)]

ServiceCalculateRSI ==
    \E period \in RsiPeriods, closes \in RsiSeries :
        /\ Len(closes) >= period + 1
        /\ rsiCall' = [fn |-> "RSIDivergenceService.calculateRSI", closes |-> closes,
                       period |-> period,
                       lossIsZero |-> WindowLossIsZero(closes, period),
                       rsi |-> serviceCalculateRSI(closes, period)]

RsiInit ==
    rsiCall = [fn |-> "NONE", closes |-> <<>>, period |-> 0, lossIsZero |-> FALSE,
               rsi |-> [num |-> 50, den |-> 1]]

\* ---------------------------------------------------------------------------
\* Properties of the RSI calculations (checked under SpecRsi)
\* ---------------------------------------------------------------------------

\* C14: each RSI value lies in [0, 100] and equals exactly 100 if and only if
\* the average loss over the window is 0.  Violated.
C14_RsiRange ==
    rsiCall.fn # "NONE" =>
        /\ 0 <= rsiCall.rsi.num
        /\ rsiCall.rsi.num <= 100 * rsiCall.rsi.den
        /\ (rsiCall.rsi.num = 100 * rsiCall.rsi.den) <=> rsiCall.lossIsZero

(***************************************************************************)
(* RSI divergence: the decision of detectRSIDivergence (divergence.utils)   *)
(* over the pivots found in the closes and in the RSI values, and           *)
(* RSIDivergenceService.checkRSIDivergencePattern over the RSI peaks and    *)
(* troughs.  The pivots are the input; the result is "NONE" for null.       *)
(***************************************************************************)
VARIABLES
    divIn,          \* the function called and the pivots handed to it
    divOut          \* its result, of type "PENDING" before the call

divVars == <<divIn, divOut>>

\* getDefaultDivergenceConfig
BullDivergenceDiff == 5
BearDivergenceDiff == 5
BullRsiLevel == 35
BearRsiLevel == 65

PivotPrices == {100, 101}
PivotRsis == {20, 30, 70, 80}
PricePivotLists == {<<>>} \cup UNION {[1..n -> PivotPrices] : n \in 2..3}
RsiPivotLists == {<<>>} \cup [1..2 -> PivotRsis]
RsiPoints == [price : PivotPrices, rsi : PivotRsis]
RsiPointLists == {<<>>} \cup [1..2 -> RsiPoints]
\* MACD values at the pivots, in hundredths
PivotMacds == {-20, 10, 30}
MacdPivotLists == {<<>>} \cup [1..2 -> PivotMacds]

\* getRecentPivots(pivotPoints, 2)
getRecentPivots(pivotPoints) == LastOf(pivotPoints, 2)

\* (mutant) the bearish branch without the comparison of the price highs
detectRSIDivergenceRsiOnly(priceHighs, priceLows, rsiHighs, rsiLows) ==
    LET recentPriceHighs == getRecentPivots(priceHighs)
        recentPriceLows  == getRecentPivots(priceLows)
        recentRsiHighs   == getRecentPivots(rsiHighs)
        recentRsiLows    == getRecentPivots(rsiLows)
    IN  IF /\ Len(recentPriceLows) >= 2 /\ Len(recentRsiLows) >= 2
           /\ recentPriceLows[2] < recentPriceLows[1]
           /\ recentRsiLows[2] > recentRsiLows[1] + BullDivergenceDiff
           /\ recentRsiLows[2] <= BullRsiLevel
        THEN [type |-> "BULLISH", price |-> recentPriceLows[2], rsi |-> recentRsiLows[2]]
        ELSE IF /\ Len(recentPriceHighs) >= 2 /\ Len(recentRsiHighs) >= 2
                /\ recentRsiHighs[2] < recentRsiHighs[1] - BearDivergenceDiff
                /\ recentRsiHighs[2] >= BearRsiLevel
        THEN [type |-> "BEARISH", price |-> recentPriceHighs[2], rsi |-> recentRsiHighs[2]]
        ELSE [type |-> "NONE", price |-> 0, rsi |-> 0]

\* (mutant) detectRSIDivergence without the tests against bullRsiLevel and
\* bearRsiLevel
detectRSIDivergenceNoLevel(priceHighs, priceLows, rsiHighs, rsiLows) ==
    LET recentPriceHighs == getRecentPivots(priceHighs)
        recentPriceLows  == getRecentPivots(priceLows)
        recentRsiHighs   == getRecentPivots(rsiHighs)
        recentRsiLows    == getRecentPivots(rsiLows)
    IN  IF /\ Len(recentPriceLows) >= 2 /\ Len(recentRsiLows) >= 2
           /\ recentPriceLows[2] < recentPriceLows[1]
           /\ recentRsiLows[2] > recentRsiLows[1] + BullDivergenceDiff
        THEN [type |-> "BULLISH", price |-> recentPriceLows[2], rsi |-> recentRsiLows[2]]
        ELSE IF /\ Len(recentPriceHighs) >= 2 /\ Len(recentRsiHighs) >= 2
                /\ recentPriceHighs[2] > recentPriceHighs[1]
                /\ recentRsiHighs[2] < recentRsiHighs[1] - BearDivergenceDiff
        THEN [type |-> "BEARISH", price |-> recentPriceHighs[2], rsi |-> recentRsiHighs[2]]
        ELSE [type |-> "NONE", price |-> 0, rsi |-> 0]

\* detectRSIDivergence from the pivots on: the bullish check comes first
detectRSIDivergence(priceHighs, priceLows, rsiHighs, rsiLows) ==
    LET recentPriceHighs == getRecentPivots(priceHighs)
        recentPriceLows  == getRecentPivots(priceLows)
        recentRsiHighs   == getRecentPivots(rsiHighs)
        recentRsiLows    == getRecentPivots(rsiLows)
    IN  IF /\ Len(recentPriceLows) >= 2 /\ Len(recentRsiLows) >= 2
           /\ recentPriceLows[2] < recentPriceLows[1]
           /\ recentRsiLows[2] > recentRsiLows[1] + BullDivergenceDiff
           /\ recentRsiLows[2] <= BullRsiLevel
        THEN [type |-> "BULLISH", price |-> recentPriceLows[2], rsi |-> recentRsiLows[2]]
        ELSE IF /\ Len(recentPriceHighs) >= 2 /\ Len(recentRsiHighs) >= 2
                /\ recentPriceHighs[2] > recentPriceHighs[1]
                /\ recentRsiHighs[2] < recentRsiHighs[1] - BearDivergenceDiff
                /\ recentRsiHighs[2] >= BearRsiLevel
        THEN [type |-> "BEARISH", price |-> recentPriceHighs[2], rsi |-> recentRsiHighs[2]]
        ELSE [type |-> "NONE", price |-> 0, rsi |-> 0]

\* checkRSIDivergencePattern: the bearish check comes first
checkRSIDivergencePattern(peaks, troughs) ==
    IF /\ Len(peaks) >= 2
       /\ peaks[Len(peaks)].price > peaks[Len(peaks) - 1].price
       /\ peaks[Len(peaks)].rsi < peaks[Len(peaks) - 1].rsi
    THEN [type |-> "BEARISH", price |-> peaks[Len(peaks)].price,
          rsi |-> peaks[Len(peaks)].rsi]
    ELSE IF /\ Len(troughs) >= 2
            /\ troughs[Len(troughs)].price < troughs[Len(troughs) - 1].price
            /\ troughs[Len(troughs)].rsi > troughs[Len(troughs) - 1].rsi
    THEN [type |-> "BULLISH", price |-> troughs[Len(troughs)].price,
          rsi |-> troughs[Len(troughs)].rsi]
    ELSE [type |-> "NONE", price |-> 0, rsi |-> 0]

\* detectMACDDivergence from the pivots on: the bullish check comes first
detectMACDDivergence(priceHighs, priceLows, macdHighs, macdLows) ==
    LET recentPriceHighs == getRecentPivots(priceHighs)
        recentPriceLows  == getRecentPivots(priceLows)
        recentMACDHighs  == getRecentPivots(macdHighs)
        recentMACDLows   == getRecentPivots(macdLows)
    IN  IF /\ Len(recentPriceLows) >= 2 /\ Len(recentMACDLows) >= 2
           /\ recentPriceLows[2] < recentPriceLows[1]
           /\ recentMACDLows[2] > recentMACDLows[1]
        THEN [type |-> "BULLISH", price |-> recentPriceLows[2], macd |-> recentMACDLows[2]]
        ELSE IF /\ Len(recentPriceHighs) >= 2 /\ Len(recentMACDHighs) >= 2
                /\ recentPriceHighs[2] > recentPriceHighs[1]
                /\ recentMACDHighs[2] < recentMACDHighs[1]
        THEN [type |-> "BEARISH", price |-> recentPriceHighs[2], macd |-> recentMACDHighs[2]]
        ELSE [type |-> "NONE", price |-> 0, macd |-> 0]

DetectMACDDivergence ==
    /\ divOut.type = "PENDING"
    /\ divIn.fn = "detectMACDDivergence"
    /\ divOut' = detectMACDDivergence(divIn.priceHighs, divIn.priceLows,
                                      divIn.macdHighs, divIn.macdLows)
    /\ UNCHANGED divIn

DetectRSIDivergence ==
    /\ divOut.type = "PENDING"
    /\ divIn.fn = "detectRSIDivergence"
    /\ divOut' = detectRSIDivergence(divIn.priceHighs, divIn.priceLows,
                                     divIn.rsiHighs, divIn.rsiLows)
    /\ UNCHANGED divIn

CheckRSIDivergencePattern ==
    /\ divOut.type = "PENDING"
    /\ divIn.fn = "checkRSIDivergencePattern"
    /\ divOut' = checkRSIDivergencePattern(divIn.peaks, divIn.troughs)
    /\ UNCHANGED divIn

DivInputs ==
    [fn : {"detectRSIDivergence"}, priceHighs : PricePivotLists,
     priceLows : PricePivotLists, rsiHighs : RsiPivotLists, rsiLows : RsiPivotLists]
        \cup [fn : {"checkRSIDivergencePattern"}, peaks : RsiPointLists,
              troughs : RsiPointLists]
        \cup [fn : {"detectMACDDivergence"}, priceHighs : PricePivotLists,
              priceLows : PricePivotLists, macdHighs : MacdPivotLists,
              macdLows : MacdPivotLists]

Pending == [type |-> "PENDING", price |-> 0, rsi |-> 0]

DivInit ==
    /\ divIn \in DivInputs
    /\ divOut = Pending

DivIdle ==
    /\ divIn = [fn |-> "checkRSIDivergencePattern", peaks |-> <<>>, troughs |-> <<>>]
    /\ divOut = Pending

\* ---------------------------------------------------------------------------
\* Properties of RSI divergence detection (checked under SpecDivergence)
\* ---------------------------------------------------------------------------

\* the last two pivots of a list compare as given
Rising(pivots) == Len(pivots) >= 2 /\ pivots[Len(pivots)] > pivots[Len(pivots) - 1]
Falling(pivots) == Len(pivots) >= 2 /\ pivots[Len(pivots)] < pivots[Len(pivots) - 1]
PricesOf(points) == [i \in 1..Len(points) |-> points[i].price]
RsisOf(points) == [i \in 1..Len(points) |-> points[i].rsi]

\* C15: every BEARISH RSI divergence that is emitted has its latest price pivot
\* high above the previous one and its latest RSI pivot high below the previous
\* one, and every BULLISH one the mirror relation on the pivot lows.
C15_DivergenceShape ==
    divOut.type # "PENDING" =>
        IF divIn.fn = "detectRSIDivergence"
        THEN /\ divOut.type = "BEARISH" =>
                    Rising(divIn.priceHighs) /\ Falling(divIn.rsiHighs)
             /\ divOut.type = "BULLISH" =>
                    Falling(divIn.priceLows) /\ Rising(divIn.rsiLows)
        ELSE IF divIn.fn = "checkRSIDivergencePattern"
        THEN /\ divOut.type = "BEARISH" =>
                    Rising(PricesOf(divIn.peaks)) /\ Falling(RsisOf(divIn.peaks))
             /\ divOut.type = "BULLISH" =>
                    Rising(RsisOf(divIn.troughs)) /\ Falling(PricesOf(divIn.troughs))
        ELSE TRUE

\* detectRSIDivergence has emitted a BEARISH divergence
C15_Witness ==
    /\ divOut.type # "PENDING"
    /\ divIn.fn = "detectRSIDivergence"
    /\ divOut.type = "BEARISH"

(***************************************************************************)
(* CandleSyncScheduler: start, stop and the timer callback                  *)
(* executeAndScheduleNext.  Time is in seconds since the epoch (UTC); the    *)
(* clock moves in steps of SchedQuantum and a timer fires at the first      *)
(* instant at or after the one it was set for.                              *)
(***************************************************************************)
VARIABLES
    sclock,         \* Date.now(), in seconds
    sched,          \* the scheduler: isRunning, config.timeframe, the pending timer
    fired           \* history: the last invocation of the callback

schedVars == <<sclock, sched, fired>>

SchedQuantum == 30
MaxSchedClock == 3900

SchedTimeframes == {"1m", "5m", "1h"}

\* getTimeframeMs, in seconds
getTimeframeMs(timeframe) ==
    CASE timeframe = "1m" -> 60
      [] timeframe = "5m" -> 5 * 60
      [] timeframe = "1h" -> 60 * 60

\* getCandleStartTime: the start of the current UTC day, hour or minute
getCandleStartTime(date, timeframeMs) ==
    IF timeframeMs >= 24 * 60 * 60 THEN date - (date % (24 * 60 * 60))
    ELSE IF timeframeMs >= 60 * 60 THEN date - (date % (60 * 60))
    ELSE date - (date % 60)

\* getNextCandleOpenTime: the start of the current candle plus one timeframe
getNextCandleOpenTime(date, timeframe) ==
    getCandleStartTime(date, getTimeframeMs(timeframe)) + getTimeframeMs(timeframe)

\* new CandleSyncScheduler({timeframe}).start(callback)
SchedulerStart ==
    /\ ~sched.isRunning
    /\ \E timeframe \in SchedTimeframes :
          sched' = [isRunning |-> TRUE, timeframe |-> timeframe,
                    timer |-> Some(getNextCandleOpenTime(sclock, timeframe))]
    /\ UNCHANGED <<sclock, fired>>

\* stop()
SchedulerStop ==
    /\ sched.isRunning
    /\ sched' = [sched EXCEPT !.isRunning = FALSE, !.timer = Undefined]
    /\ fired' = Undefined
    /\ UNCHANGED sclock

\* executeAndScheduleNext: the callback runs (taking no time or one quantum),
\* then the next timer is set from the time it is then
ExecuteAndScheduleNext ==
    /\ sched.timer # Undefined
    /\ sclock >= sched.timer[1]
    /\ fired' = Some([scheduledFor |-> sched.timer[1], at |-> sclock,
                      timeframe |-> sched.timeframe])
    /\ \E took \in {0, SchedQuantum} :
          /\ sclock' = sclock + took
          /\ sched' = [sched EXCEPT
                          !.timer = Some(getNextCandleOpenTime(sclock', sched.timeframe))]

SchedClock ==
    /\ sclock < MaxSchedClock
    /\ IF sched.timer = Undefined THEN TRUE ELSE sclock < sched.timer[1]
    /\ sclock' = sclock + SchedQuantum
    /\ UNCHANGED <<sched, fired>>

SchedInit ==
    /\ sclock = 0
    /\ sched = [isRunning |-> FALSE, timeframe |-> "1m", timer |-> Undefined]
    /\ fired = Undefined

\* ---------------------------------------------------------------------------
\* Properties of the scheduler (checked under SpecScheduler)
\* ---------------------------------------------------------------------------

\* C16: every invocation of the tick callback is scheduled at an instant that
\* is a candle boundary of the configured timeframe, a whole multiple of its
\* duration.  Violated.
C16_FiresOnCandleBoundary ==
    fired # Undefined =>
        fired[1].scheduledFor % getTimeframeMs(fired[1].timeframe) = 0

(***************************************************************************)
(* The indicator functions on a history of n candles, too short or long     *)
(* enough: what each call gives back.  A result is a thrown error, null, a   *)
(* number or an array, of which the length is kept.                         *)
(***************************************************************************)
VARIABLES
    indCall         \* the last indicator call: function, history length, result

indVars == <<indCall>>

MaxHistory == 40

\* ScalpingService configuration built by AlertService
EmaFastPeriod == 9
EmaSlowPeriod == 21
StochasticKPeriod == 14
StochasticDPeriod == 3
BollingerPeriod == 20
\* calculateVWAP(klineData, period = 20)
VwapPeriod == 20
\* calculateMACDValues(prices, 12, 26, 9)
MacdFastPeriod == 12
MacdSlowPeriod == 26
MacdSignalPeriod == 9

HistorySizes == 0..MaxHistory
\* the candles of the histories: <<high, low, close>>, volume 10 each
IndicatorShape == <<101, 99, 100>>

Thrown == [kind |-> "THROWS", length |-> 0, value |-> 0]
Null == [kind |-> "NULL", length |-> 0, value |-> 0]
Number(v) == [kind |-> "NUMBER", length |-> 0, value |-> v]
Array(len) == [kind |-> "ARRAY", length |-> len, value |-> 0]

\* calculateRSI of rsi.utils: throws below period + 1 candles; on candles that
\* all close alike the average loss is 0 and the value is that of rs = 100
rsiOnHistory(n, period) ==
    IF CalculateRSIThrows(n, period) THEN Thrown
    ELSE Number(Round2(100 * 100, 101).num)

\* calculateRSIValues: `period` values of 50, then one value per further price
calculateRSIValues(n, period) == Array(period + (IF n > period THEN n - period ELSE 0))

\* ScalpingService.calculateEMA: [] below `period` prices, else ema.slice(period - 1)
scalpingCalculateEMA(n, period) == IF n < period THEN Array(0) ELSE Array(n - period + 1)

\* calculateEMA of pivot.utils: ema[period - 1] is always assigned
calculateEMA(n, period) == Array(IF n > period THEN n ELSE period)

\* calculateMACDValues: one entry for each i in slow + signal - 2 .. n - 1
calculateMACDValues(n, fastPeriod, slowPeriod, signalPeriod) ==
    Array(IF n > slowPeriod + signalPeriod - 2 THEN n - (slowPeriod + signalPeriod - 2) ELSE 0)

\* calculateStochastic: the length of k
calculateStochastic(n, kPeriod, dPeriod) ==
    IF n < kPeriod THEN Array(0) ELSE Array(n - kPeriod + 1)

\* calculateBollingerBands: the length of upper
calculateBollingerBands(n, period) ==
    IF n < period THEN Array(0) ELSE Array(n - period + 1)

\* (mutant) VWAP of whatever candles there are
calculateVWAPNoGuard(n, period) == Number((IndicatorShape[1] + IndicatorShape[2] + IndicatorShape[3]) \div 3)

\* calculateVWAP: null below `period` candles, else the volume-weighted
\* typical price of the last `period` candles (all alike here)
calculateVWAP(n, period) ==
    IF n < period THEN Null
    ELSE Number((IndicatorShape[1] + IndicatorShape[2] + IndicatorShape[3]) \div 3)

\* calculateATR (times its period), a number in every case
atrOnHistory(n, period) == Number(calculateATR(History(n, IndicatorShape), period))

IndicatorCall(fn, n, result) ==
    indCall' = [fn |-> fn, candles |-> n, result |-> result]

CallCalculateRSI ==
    \E n \in HistorySizes : IndicatorCall("calculateRSI", n, rsiOnHistory(n, RsiPeriod))
CallCalculateRSIValues ==
    \E n \in HistorySizes :
        IndicatorCall("calculateRSIValues", n, calculateRSIValues(n, RsiPeriod))
CallScalpingEMA ==
    \E n \in HistorySizes, period \in {EmaFastPeriod, EmaSlowPeriod} :
        IndicatorCall(IF period = EmaFastPeriod THEN "calculateEMA9" ELSE "calculateEMA21",
                      n, scalpingCalculateEMA(n, period))
CallCalculateEMA ==
    \E n \in HistorySizes :
        IndicatorCall("pivot.calculateEMA", n, calculateEMA(n, MacdFastPeriod))
CallCalculateMACDValues ==
    \E n \in HistorySizes :
        IndicatorCall("calculateMACDValues", n,
                      calculateMACDValues(n, MacdFastPeriod, MacdSlowPeriod, MacdSignalPeriod))
CallCalculateStochastic ==
    \E n \in HistorySizes :
        IndicatorCall("calculateStochastic", n,
                      calculateStochastic(n, StochasticKPeriod, StochasticDPeriod))
CallCalculateBollingerBands ==
    \E n \in HistorySizes :
        IndicatorCall("calculateBollingerBands", n, calculateBollingerBands(n, BollingerPeriod))
CallCalculateATR ==
    \E n \in HistorySizes : IndicatorCall("calculateATR", n, atrOnHistory(n, AtrPeriod))
CallCalculateVWAP ==
    \E n \in HistorySizes : IndicatorCall("calculateVWAP", n, calculateVWAP(n, VwapPeriod))

IndInit == indCall = [fn |-> "NONE", candles |-> 0, result |-> Null]

\* ---------------------------------------------------------------------------
\* Properties of the indicator functions (checked under SpecIndicators)
\* ---------------------------------------------------------------------------

\* the fewest candles the function needs to compute a value
NeededCandles ==
    [calculateRSI |-> RsiPeriod + 1, calculateRSIValues |-> RsiPeriod + 1,
     calculateEMA9 |-> EmaFastPeriod, calculateEMA21 |-> EmaSlowPeriod,
     calculateMACDValues |-> MacdSlowPeriod + MacdSignalPeriod - 1,
     calculateStochastic |-> StochasticKPeriod,
     calculateBollingerBands |-> BollingerPeriod,
     calculateATR |-> AtrPeriod + 1, calculateVWAP |-> VwapPeriod]

NeededBy(fn) == IF fn = "pivot.calculateEMA" THEN MacdFastPeriod ELSE NeededCandles[fn]

InsufficientHistory == indCall.fn # "NONE" /\ indCall.candles < NeededBy(indCall.fn)

EmptyOrNull(result) == result.kind = "NULL" \/ (result.kind = "ARRAY" /\ result.length = 0)

\* C18 as stated: calculateRSI throws below period + 1 candles; every other
\* indicator function returns an empty or null result on insufficient history
\* and never throws.  Violated: the results are not all empty or null.
C18_AsStated ==
    /\ indCall.fn # "calculateRSI" => indCall.result.kind # "THROWS"
    /\ InsufficientHistory =>
          IF indCall.fn = "calculateRSI" THEN indCall.result.kind = "THROWS"
          ELSE EmptyOrNull(indCall.result)

\* C18: calculateRSI throws exactly below period + 1 candles and no other
\* indicator function ever throws.  On insufficient history the EMA of the
\* scalping service, MACD, stochastic and Bollinger give an empty array and
\* VWAP gives null, while ATR gives the number 0, the RSI series `period` values
\* of 50 and the EMA behind MACD an array of `period` slots.
C18_InsufficientHistory ==
    /\ indCall.fn # "calculateRSI" => indCall.result.kind # "THROWS"
    /\ indCall.fn = "calculateRSI" =>
          (indCall.result.kind = "THROWS" <=> indCall.candles < RsiPeriod + 1)
    /\ InsufficientHistory =>
          CASE indCall.fn = "calculateRSI" -> indCall.result = Thrown
            [] indCall.fn = "calculateATR" -> indCall.result = Number(0)
            [] indCall.fn = "calculateRSIValues" -> indCall.result = Array(RsiPeriod)
            [] indCall.fn = "pivot.calculateEMA" -> indCall.result = Array(MacdFastPeriod)
            [] indCall.fn = "calculateVWAP" -> indCall.result = Null
            [] OTHER -> indCall.result = Array(0)

\* calculateATR was called on too few candles and returned the number 0
C18_Witness ==
    /\ InsufficientHistory
    /\ indCall.fn = "calculateATR"
    /\ indCall.result = Number(0)

(***************************************************************************)
(* Persistence of the trackers and of the signal registry                   *)
(*                                                                         *)
(* SignalTrackerService, ScalpingService, RSIDivergenceService and the      *)
(* AlertService with the volume-divergence tracker each keep their state in *)
(* a field, read it from a JSON file in the constructor and write the file  *)
(* after each change.  The state kept is the number of entries; the file    *)
(* system fails or works as the environment decides.                        *)
(***************************************************************************)
VARIABLES
    pservice,       \* which service this is
    pbuilt,         \* the constructor has returned
    pstate,         \* the field: this.signals / this.tracker / this.divergenceTracker
    pfile,          \* the JSON file: absent, unparsable or holding a state
    pdir,           \* the data directory exists
    pio,            \* the file system works or fails
    lastIo          \* the last file operation of the service and its outcome

persistVars == <<pservice, pbuilt, pstate, pfile, pdir, pio, lastIo>>

MaxEntries == 2

PersistServices == {"SignalTrackerService", "ScalpingService",
                    "RSIDivergenceService", "AlertService"}

\* private signals: SignalRecord[] = [] / private tracker = {}
EmptyState == 0

NoFile == [exists |-> FALSE, parses |-> FALSE, content |-> EmptyState]
FileOf(content) == [exists |-> TRUE, parses |-> TRUE, content |-> content]

NoIo == [op |-> "none", failed |-> FALSE, logged |-> FALSE, thrown |-> FALSE,
         state |-> EmptyState]
Io(op, failed, logged, thrown, state) ==
    [op |-> op, failed |-> failed, logged |-> logged, thrown |-> thrown, state |-> state]

\* the constructor of SignalTrackerService creates the directory outside any try
ConstructorMakesDirectory(service) == service = "SignalTrackerService"
\* saveTracker / saveDivergenceTracker of the scalping and RSI services create it
\* inside their try
SaveMakesDirectory(service) == service \in {"ScalpingService", "RSIDivergenceService"}

\* (mutant) loadTracker without its catch
loadTrackerNoCatch(file, io) ==
    IF ~file.exists THEN [state |-> EmptyState, failed |-> FALSE, logged |-> FALSE, thrown |-> FALSE]
    ELSE IF io = "FAILS" \/ ~file.parses
         THEN [state |-> EmptyState, failed |-> TRUE, logged |-> FALSE, thrown |-> TRUE]
         ELSE [state |-> file.content, failed |-> FALSE, logged |-> FALSE, thrown |-> FALSE]

\* loadSignals / loadTracker / loadDivergenceTracker: nothing to do without a
\* file; readFileSync or JSON.parse throwing is caught, logged and answered with
\* the empty state
loadTracker(file, io) ==
    IF ~file.exists THEN [state |-> EmptyState, failed |-> FALSE, logged |-> FALSE, thrown |-> FALSE]
    ELSE IF io = "FAILS" \/ ~file.parses
         THEN [state |-> EmptyState, failed |-> TRUE, logged |-> TRUE, thrown |-> FALSE]
         ELSE [state |-> file.content, failed |-> FALSE, logged |-> FALSE, thrown |-> FALSE]

\* saveSignals / saveTracker / saveDivergenceTracker: mkdirSync (where the
\* service has it) and writeFileSync inside one try; the write needs the
\* directory
saveTracker(service, state, dir, io) ==
    LET dirAfter == dir \/ (SaveMakesDirectory(service) /\ io = "OK")
        written == io = "OK" /\ dirAfter
    IN  [dir |-> dirAfter, written |-> written,
         failed |-> ~written, logged |-> ~written, thrown |-> FALSE]

\* new Service(config): ensureDataDirectory (SignalTrackerService only), then load
Construct ==
    /\ ~pbuilt
    /\ IF ConstructorMakesDirectory(pservice) /\ ~pdir /\ pio = "FAILS"
       THEN \* mkdirSync throws out of the constructor
            /\ lastIo' = Io("mkdir", TRUE, FALSE, TRUE, EmptyState)
            /\ UNCHANGED <<pbuilt, pstate, pdir>>
       ELSE LET loaded == loadTracker(pfile, pio)
            IN  /\ pdir' = (pdir \/ ConstructorMakesDirectory(pservice))
                /\ pstate' = loaded.state
                /\ pbuilt' = ~loaded.thrown
                /\ lastIo' = Io("load", loaded.failed, loaded.logged, loaded.thrown,
                                loaded.state)
    /\ UNCHANGED <<pservice, pfile, pio>>

\* a state-changing operation (record*, updateLastAlertTime, update of the
\* tracker) followed by the save
ChangeAndSave ==
    /\ pbuilt
    /\ pstate < MaxEntries
    /\ LET saved == saveTracker(pservice, pstate + 1, pdir, pio)
       IN  /\ pstate' = pstate + 1
           /\ pdir' = saved.dir
           /\ pfile' = IF saved.written THEN FileOf(pstate + 1) ELSE pfile
           /\ lastIo' = Io("save", saved.failed, saved.logged, saved.thrown, pstate + 1)
    /\ UNCHANGED <<pservice, pbuilt, pio>>

\* clearTracker / clearDivergenceTracker: the empty state, saved
ClearAndSave ==
    /\ pbuilt
    /\ pservice # "SignalTrackerService"
    /\ LET saved == saveTracker(pservice, EmptyState, pdir, pio)
       IN  /\ pstate' = EmptyState
           /\ pdir' = saved.dir
           /\ pfile' = IF saved.written THEN FileOf(EmptyState) ELSE pfile
           /\ lastIo' = Io("save", saved.failed, saved.logged, saved.thrown, EmptyState)
    /\ UNCHANGED <<pservice, pbuilt, pio>>

\* the process ends and starts again: the fields are gone, the file stays
Restart ==
    /\ pbuilt' = FALSE
    /\ pstate' = EmptyState
    /\ lastIo' = NoIo
    /\ UNCHANGED <<pservice, pfile, pdir, pio>>

\* the environment: the file system starts or stops failing, the file is damaged
IoChanges ==
    /\ pio' = IF pio = "OK" THEN "FAILS" ELSE "OK"
    /\ UNCHANGED <<pservice, pbuilt, pstate, pfile, pdir, lastIo>>

FileDamaged ==
    /\ pfile.exists /\ pfile.parses
    /\ pfile' = [pfile EXCEPT !.parses = FALSE]
    /\ UNCHANGED <<pservice, pbuilt, pstate, pdir, pio, lastIo>>

PersistInit ==
    /\ pservice \in PersistServices
    /\ pbuilt = FALSE
    /\ pstate = EmptyState
    /\ pfile = NoFile
    /\ pdir \in BOOLEAN
    /\ pio \in {"OK", "FAILS"}
    /\ lastIo = NoIo

PersistIdle ==
    /\ pservice = "SignalTrackerService"
    /\ pbuilt = FALSE
    /\ pstate = EmptyState
    /\ pfile = NoFile
    /\ pdir = TRUE
    /\ pio = "OK"
    /\ lastIo = NoIo

\* ---------------------------------------------------------------------------
\* Properties of the persistence (checked under SpecPersistence)
\* ---------------------------------------------------------------------------

\* C19: a failed read or write of the persisted file is caught and logged and
\* does not leave the service by an exception; after a failed load the service
\* is built with the empty state, after a failed save it still holds the state
\* it tried to write
C19_PersistenceFailures ==
    (lastIo.op \in {"load", "save"} /\ lastIo.failed) =>
        /\ lastIo.logged
        /\ ~lastIo.thrown
        /\ pbuilt
        /\ lastIo.op = "load" => pstate = EmptyState
        /\ lastIo.op = "save" => pstate = lastIo.state

\* a save of a non-empty state has failed, the file on disk being unparsable
C19_Witness ==
    /\ lastIo.op = "save" /\ lastIo.failed
    /\ pstate = lastIo.state /\ pstate > EmptyState
    /\ pfile.exists /\ ~pfile.parses

(***************************************************************************)
(* Histories of the volume-divergence and RSI-divergence trackers           *)
(*                                                                         *)
(* AlertService.detectVolumeDivergence keeps the closed candles of each     *)
(* symbol/timeframe in divergenceTracker[symbol][timeframe].candles, and    *)
(* RSIDivergenceService.detectRSIDivergence the RSI points in .rsiData.     *)
(* An entry is identified by its openTime, which is all that is kept of it  *)
(* here; open times are counted in candles.  The entry of one               *)
(* symbol/timeframe is followed; calls for another leave it alone.  The     *)
(* scheduler runs one tick per candle, and a tick calls each detector once  *)
(* with the klineData fetched for it.                                       *)
(***************************************************************************)
VARIABLES
    followedKey,    \* the symbol/timeframe followed
    openTime,       \* open time of the candle that is forming
    klineLength,    \* klineData.length of the tick
    pending,        \* the detectors the tick has not called yet
    candleHistory,  \* AlertService.divergenceTracker[symbol][timeframe].candles
    rsiHistory      \* RSIDivergenceService.divergenceTracker[symbol][timeframe].rsiData

historyVars == <<followedKey, openTime, klineLength, pending, candleHistory, rsiHistory>>

MaxOpenTime == 11

\* tracker.candles.slice(-10)
MaxTrackedCandles == 10
\* tracker.rsiData.slice(-50)
MaxRsiPoints == 50
\* config.divergenceCandleCount
DivergenceCandleCount == 3
\* config.rsiDivergenceLookback
RsiDivergenceLookback == 20

TrackerKeys == {<<"BTCUSDT", "5m">>, <<"ETHUSDT", "15m">>}

HistoryDetectors == {"VOLUME_DIVERGENCE", "RSI_DIVERGENCE"}

\* klineData.length: too few candles for either detector, and the 100 candles
\* getKlineData asks for
KlineLengths == {3, 100}

\* the open times of klineData, n candles up to the forming one
KlineOpenTimes(n, at) == [i \in 1..n |-> at - n + i]

Elements(s) == {s[i] : i \in 1..Len(s)}

\* array.slice(-k)
SliceLast(s, k) == IF Len(s) > k THEN SubSeq(s, Len(s) - k + 1, Len(s)) ELSE s

\* findIndex by openTime: an entry that is there is replaced in place, a new
\* one is pushed (the open times of one klineData differ from each other)
PushOrReplace(history, times) ==
    LET IsNew(time) == time \notin Elements(history)
    IN  history \o SelectSeq(times, IsNew)

\* (mutant) the candles are pushed and none is dropped
updateTrackerWithClosedCandlesNoTrim(history, closedCandles) ==
    PushOrReplace(history, closedCandles)

updateTrackerWithClosedCandles(history, closedCandles) ==
    LET pushed == PushOrReplace(history, closedCandles)
    IN  IF Len(pushed) > MaxTrackedCandles THEN SliceLast(pushed, MaxTrackedCandles)
        ELSE pushed

\* rsiValues[i] belongs to klineData[i + rsiPeriod]
updateTrackerWithRSIData(history, klineTimes, rsiCount) ==
    LET points == SubSeq(klineTimes, RsiPeriod + 1,
                         IF RsiPeriod + rsiCount < Len(klineTimes)
                         THEN RsiPeriod + rsiCount ELSE Len(klineTimes))
        pushed == PushOrReplace(history, points)
    IN  IF Len(pushed) > MaxRsiPoints THEN SliceLast(pushed, MaxRsiPoints) ELSE pushed

\* RSIDivergenceService.calculateRSI: the number of values returned
RsiValueCount(n, period) == IF n < period + 1 THEN 0 ELSE n - period

\* detectVolumeDivergence, as far as the candles kept are concerned
DetectVolumeDivergence ==
    \E key \in TrackerKeys :
        LET n == klineLength
            klineTimes == KlineOpenTimes(n, openTime)
            \* klineData.slice(-divergenceCandleCount - 1, -1)
            closedCandles ==
                SubSeq(klineTimes,
                       IF n > DivergenceCandleCount + 1 THEN n - DivergenceCandleCount ELSE 1,
                       n - 1)
        IN  IF key # followedKey
            THEN UNCHANGED <<candleHistory, pending, followedKey, openTime, klineLength,
                             rsiHistory>>
            ELSE /\ "VOLUME_DIVERGENCE" \in pending
                 /\ pending' = pending \ {"VOLUME_DIVERGENCE"}
                 /\ candleHistory' =
                      IF \/ n < DivergenceCandleCount
                         \/ Len(closedCandles) < DivergenceCandleCount
                      THEN candleHistory
                      ELSE updateTrackerWithClosedCandles(candleHistory, closedCandles)
                 /\ UNCHANGED <<followedKey, openTime, klineLength, rsiHistory>>

\* detectRSIDivergence, as far as the RSI points kept are concerned
DetectRSIDivergenceTick ==
    \E key \in TrackerKeys :
        LET n == klineLength
            klineTimes == KlineOpenTimes(n, openTime)
            rsiCount == RsiValueCount(n, RsiPeriod)
        IN  IF key # followedKey
            THEN UNCHANGED <<rsiHistory, pending, followedKey, openTime, klineLength,
                             candleHistory>>
            ELSE /\ "RSI_DIVERGENCE" \in pending
                 /\ pending' = pending \ {"RSI_DIVERGENCE"}
                 /\ rsiHistory' =
                      IF \/ n < RsiPeriod + RsiDivergenceLookback
                         \/ rsiCount = 0
                      THEN rsiHistory
                      ELSE updateTrackerWithRSIData(rsiHistory, klineTimes, rsiCount)
                 /\ UNCHANGED <<followedKey, openTime, klineLength, candleHistory>>

\* the forming candle closes, the next one opens and the next tick fetches its
\* klineData
CandleCloses ==
    /\ pending = {}
    /\ openTime < MaxOpenTime
    /\ openTime' = openTime + 1
    /\ klineLength' \in KlineLengths
    /\ pending' = HistoryDetectors
    /\ UNCHANGED <<followedKey, candleHistory, rsiHistory>>

HistoryInit ==
    /\ followedKey \in TrackerKeys
    /\ openTime = 0
    /\ klineLength \in KlineLengths
    /\ pending = HistoryDetectors
    /\ candleHistory = <<>>
    /\ rsiHistory = <<>>

HistoryIdle ==
    /\ followedKey = <<"BTCUSDT", "5m">>
    /\ openTime = 0
    /\ klineLength = 100
    /\ pending = HistoryDetectors
    /\ candleHistory = <<>>
    /\ rsiHistory = <<>>

\* ---------------------------------------------------------------------------
\* Properties of the tracker histories (checked under SpecHistory)
\* ---------------------------------------------------------------------------

\* C20: whatever number of ticks has been processed, a symbol/timeframe has
\* at most 10 closed candles in the volume-divergence tracker and at most 50
\* RSI points in the RSI-divergence tracker
C20_HistoryBounded ==
    /\ Len(candleHistory) <= MaxTrackedCandles
    /\ Len(rsiHistory) <= MaxRsiPoints

\* the tracker holds exactly 10 closed candles, the oldest one having been
\* dropped, and 50 RSI points out of the 86 of one tick
C20_Witness ==
    /\ Len(candleHistory) = MaxTrackedCandles
    /\ candleHistory[1] > -DivergenceCandleCount
    /\ Len(rsiHistory) = MaxRsiPoints

(***************************************************************************)
(* Risk/reward ratio of the TP/SL results and of the records (checked under *)
(* SpecRiskReward: the TP/SL calculations and the record calls of the       *)
(* tracker)                                                                *)
(***************************************************************************)
\* the fraction `ratio` is reward / risk
IsQuotient(ratio, reward, risk) ==
    /\ risk > 0
    /\ ratio.den > 0
    /\ IF ratio = Ratio(reward, risk) THEN TRUE
       ELSE ratio.num * risk = ratio.den * reward

TpslRisk == Abs(TpslScale * tpsl.entry - tpsl.result.stopLoss)
TpslReward == Abs(tpsl.result.takeProfit - TpslScale * tpsl.entry)

RecordsCarryQuotient ==
    \A i \in 1..Len(signals) :
        IsQuotient(signals[i].riskRewardRatio,
                   Abs(signals[i].takeProfit - signals[i].entryPrice),
                   Abs(signals[i].entryPrice - signals[i].stopLoss))

VARIABLES
    actionStatus,   \* action.status of every action queued so far
    executable,     \* whether findExecutor finds an executor for the action
    pendingActions, \* the ids in the pendingActions map, in insertion order
    actionHistory,  \* the ids in actionHistory
    isProcessing,   \* BotActionService.isProcessing
    batch,          \* `actions` of the running executePendingActions
    awaited,        \* index in batch of the action whose executor is awaited, 0 if none
    executed,       \* history: the ids handed to executor.execute, in order
    cancelled       \* history: the ids for which cancelAction returned true

actionVars == <<actionStatus, executable, pendingActions, actionHistory, isProcessing,
                batch, awaited, executed, cancelled>>

MaxActions == 3

ActionIds == 1..MaxActions

Queued == DOMAIN actionStatus

\* Map.delete
MapDelete(ids, id) == SelectSeq(ids, LAMBDA x : x # id)

\* the loop of executePendingActions from batch[i] up to its next await or to
\* its end: an action without executor fails at once (the throw is caught)
RECURSIVE RunLoop(_, _, _, _, _)
RunLoop(actions, i, status, pendingMap, history) ==
    IF i > Len(actions)
    THEN [awaited |-> 0, status |-> status, pending |-> pendingMap, history |-> history]
    ELSE LET id == actions[i]
         IN  IF executable[id]
             THEN \* action.status = "executing"; await executor.execute(action)
                  [awaited |-> i, status |-> [status EXCEPT ![id] = "executing"],
                   pending |-> pendingMap, history |-> history]
             ELSE RunLoop(actions, i + 1, [status EXCEPT ![id] = "failed"],
                          MapDelete(pendingMap, id), Append(history, id))

\* what a run of the loop leaves in the fields
LoopResult(actions, run) ==
    /\ actionStatus' = run.status
    /\ pendingActions' = run.pending
    /\ actionHistory' = run.history
    /\ awaited' = run.awaited
    /\ isProcessing' = (run.awaited # 0)
    /\ executed' = IF run.awaited # 0 THEN Append(executed, actions[run.awaited])
                   ELSE executed

QueueAction ==
    \E canExecute \in BOOLEAN :
        LET id == Cardinality(Queued) + 1
        IN  /\ id <= MaxActions
            /\ actionStatus' = [x \in Queued \cup {id} |->
                                   IF x = id THEN "pending" ELSE actionStatus[x]]
            /\ executable' = [x \in Queued \cup {id} |->
                                   IF x = id THEN canExecute ELSE executable[x]]
            /\ pendingActions' = Append(pendingActions, id)
            /\ UNCHANGED <<actionHistory, isProcessing, batch, awaited, executed, cancelled>>

\* (mutant) executePendingActions without `if (this.isProcessing) return []`
ExecutePendingActionsNoGuard ==
    /\ batch' = pendingActions
    /\ LoopResult(pendingActions, RunLoop(pendingActions, 1, actionStatus, pendingActions, actionHistory))
    /\ UNCHANGED <<executable, cancelled>>

\* executePendingActions up to its first await
ExecutePendingActions ==
    /\ ~isProcessing
    /\ batch' = pendingActions
    /\ LoopResult(pendingActions, RunLoop(pendingActions, 1, actionStatus, pendingActions, actionHistory))
    /\ UNCHANGED <<executable, cancelled>>

\* executePendingActions called while another call is running: returns []
ExecuteWhileProcessing ==
    /\ isProcessing
    /\ UNCHANGED actionVars

\* the awaited executor settles and executePendingActions runs on
ExecutorSettles ==
    /\ awaited # 0
    /\ \E outcome \in {"success", "failure", "rejects"} :
        LET id == batch[awaited]
            status == [actionStatus EXCEPT
                         ![id] = IF outcome = "success" THEN "completed" ELSE "failed"]
        IN  /\ LoopResult(batch, RunLoop(batch, awaited + 1, status,
                                         MapDelete(pendingActions, id),
                                         Append(actionHistory, id)))
            /\ UNCHANGED <<executable, batch, cancelled>>

CancelAction ==
    \E id \in ActionIds :
        IF id \in Elements(pendingActions) /\ actionStatus[id] = "pending"
        THEN /\ actionStatus' = [actionStatus EXCEPT ![id] = "failed"]
             /\ pendingActions' = MapDelete(pendingActions, id)
             /\ actionHistory' = Append(actionHistory, id)
             /\ cancelled' = cancelled \cup {id}
             /\ UNCHANGED <<executable, isProcessing, batch, awaited, executed>>
        ELSE UNCHANGED actionVars

ClearHistory ==
    /\ actionHistory' = <<>>
    /\ UNCHANGED <<actionStatus, executable, pendingActions, isProcessing, batch, awaited,
                   executed, cancelled>>

ActionInit ==
    /\ actionStatus = <<>>
    /\ executable = <<>>
    /\ pendingActions = <<>>
    /\ actionHistory = <<>>
    /\ isProcessing = FALSE
    /\ batch = <<>>
    /\ awaited = 0
    /\ executed = <<>>
    /\ cancelled = {}

\* ---------------------------------------------------------------------------
\* Properties of the action queue (checked under SpecActions)
\* ---------------------------------------------------------------------------

\* C22: an action for which cancelAction returned true is never passed to an
\* executor afterwards.  Violated: the running batch still holds the action.
C22_CancelledNeverExecuted ==
    \A id \in cancelled : id \notin Elements(executed)

\* the number of times the action is in actionHistory
TimesInHistory(id) == Cardinality({i \in 1..Len(actionHistory) : actionHistory[i] = id})

\* C27: a queued action is never both in the pending map and in the history, it
\* is pending or executing while in the pending map and completed or failed
\* once in the history, and it is in the history at most once (an action that
\* clearHistory dropped is in neither).  Violated: an action cancelled during
\* the await of its batch is run and pushed to the history a second time.
C27_PendingXorHistory ==
    \A id \in Queued :
        /\ ~(id \in Elements(pendingActions) /\ TimesInHistory(id) > 0)
        /\ id \in Elements(pendingActions) => actionStatus[id] \in {"pending", "executing"}
        /\ TimesInHistory(id) > 0 => actionStatus[id] \in {"completed", "failed"}
        /\ TimesInHistory(id) <= 1

\* C38: at most one execution loop runs at a time and isProcessing is false
\* again once the loop has ended.  isProcessing is true exactly while a loop
\* is suspended at the await of an executor, whatever the executors before
\* did; and while it is true an action is handed to an executor only by that
\* loop going on to a later action of its own batch (a call made meanwhile
\* executes nothing).
C38_OneLoopAtATime ==
    /\ [](isProcessing <=> awaited # 0)
    /\ [][(isProcessing /\ executed' # executed)
            => (batch' = batch /\ awaited' > awaited)]_actionVars

\* a loop has ended after one of its executors failed or rejected
C38_Witness ==
    /\ ~isProcessing
    /\ \E i \in 1..Len(executed) : actionStatus[executed[i]] = "failed"

(*                                                                         *)
(* The callback of a scheduler is asynchronous: an invocation starts when a *)
(* timer fires and is still running until its promise settles, and start    *)
(* and stop may be called meanwhile.  Delays are left out: a live timer may *)
(* fire at any moment.  One scheduler is followed.                          *)
(***************************************************************************)
VARIABLES
    schedulerKind,  \* "CandleSyncScheduler" or "UTCScheduler"
    timerRunning,   \* this.isRunning
    intervalId,     \* this.intervalId: Undefined (null) or Some(timer)
    hasCallback,    \* CandleSyncScheduler: this.callback is not null
    liveTimers,     \* the timers of the event loop set by the scheduler, not yet
                    \* cleared: [id, interval]
    timersSet,      \* the number of timers set so far
    invocations,    \* the number of invocations of the callback still running
    stopped,        \* history: stop() has returned and start was not called since
    invokedStopped  \* history: the callback was invoked while `stopped`

timerVars == <<schedulerKind, timerRunning, intervalId, hasCallback, liveTimers, timersSet,
               invocations, stopped, invokedStopped>>

MaxTimers == 4
MaxInvocations == 2

SchedulerKinds == {"CandleSyncScheduler", "UTCScheduler"}

Timer(id, interval) == [id |-> id, interval |-> interval]

\* clearTimeout / clearInterval of the handle in this.intervalId
ClearTimer(timers, handle) ==
    IF handle = Undefined THEN timers ELSE {t \in timers : t.id # handle[1]}

\* start(callback) / startMinuteScheduler(callback)
TimerStart ==
    IF timerRunning
    THEN UNCHANGED timerVars
    ELSE /\ timersSet < MaxTimers
         /\ timerRunning' = TRUE
         /\ timersSet' = timersSet + 1
         /\ liveTimers' = liveTimers \cup {Timer(timersSet + 1, FALSE)}
         /\ stopped' = FALSE
         /\ invokedStopped' = FALSE
         /\ IF schedulerKind = "CandleSyncScheduler"
            THEN \* this.callback = callback; this.intervalId = setTimeout(...)
                 /\ hasCallback' = TRUE
                 /\ intervalId' = Some(timersSet + 1)
            ELSE \* setTimeout(...), the handle is not kept
                 UNCHANGED <<hasCallback, intervalId>>
         /\ UNCHANGED <<schedulerKind, invocations>>

\* stop()
TimerStop ==
    /\ liveTimers' = ClearTimer(liveTimers, intervalId)
    /\ intervalId' = Undefined
    /\ timerRunning' = FALSE
    /\ hasCallback' = IF schedulerKind = "CandleSyncScheduler" THEN FALSE ELSE hasCallback
    /\ stopped' = TRUE
    /\ UNCHANGED <<schedulerKind, timersSet, invocations, invokedStopped>>

\* the callback is invoked and awaited
Invoke ==
    /\ invocations < MaxInvocations
    /\ invocations' = invocations + 1
    /\ invokedStopped' = (invokedStopped \/ stopped)

\* a timeout of CandleSyncScheduler fires: executeAndScheduleNext up to its await
CandleTimerFires ==
    /\ schedulerKind = "CandleSyncScheduler"
    /\ \E t \in liveTimers :
          /\ liveTimers' = liveTimers \ {t}
          /\ IF hasCallback THEN Invoke
             ELSE UNCHANGED <<invocations, invokedStopped>>
    /\ UNCHANGED <<schedulerKind, timerRunning, intervalId, hasCallback, timersSet, stopped>>

\* the callback settles: executeAndScheduleNext sets the next timeout
CandleCallbackSettles ==
    /\ schedulerKind = "CandleSyncScheduler"
    /\ invocations > 0
    /\ invocations' = invocations - 1
    /\ IF timerRunning
       THEN /\ timersSet < MaxTimers
            /\ timersSet' = timersSet + 1
            /\ liveTimers' = liveTimers \cup {Timer(timersSet + 1, FALSE)}
            /\ intervalId' = Some(timersSet + 1)
       ELSE UNCHANGED <<timersSet, liveTimers, intervalId>>
    /\ UNCHANGED <<schedulerKind, timerRunning, hasCallback, stopped, invokedStopped>>

\* the first timeout of UTCScheduler fires: executeCallback, then setInterval
UTCTimeoutFires ==
    /\ schedulerKind = "UTCScheduler"
    /\ timersSet < MaxTimers
    /\ \E t \in liveTimers :
          /\ ~t.interval
          /\ liveTimers' = (liveTimers \ {t}) \cup {Timer(timersSet + 1, TRUE)}
    /\ Invoke
    /\ timersSet' = timersSet + 1
    /\ intervalId' = Some(timersSet + 1)
    /\ UNCHANGED <<schedulerKind, timerRunning, hasCallback, stopped>>

\* the interval of UTCScheduler fires: executeCallback
UTCIntervalFires ==
    /\ schedulerKind = "UTCScheduler"
    /\ \E t \in liveTimers : t.interval
    /\ Invoke
    /\ UNCHANGED <<schedulerKind, timerRunning, intervalId, hasCallback, liveTimers,
                   timersSet, stopped>>

\* the callback of UTCScheduler settles
UTCCallbackSettles ==
    /\ schedulerKind = "UTCScheduler"
    /\ invocations > 0
    /\ invocations' = invocations - 1
    /\ UNCHANGED <<schedulerKind, timerRunning, intervalId, hasCallback, liveTimers,
                   timersSet, stopped, invokedStopped>>

TimerInit ==
    /\ schedulerKind \in SchedulerKinds
    /\ timerRunning = FALSE
    /\ intervalId = Undefined
    /\ hasCallback = FALSE
    /\ liveTimers = {}
    /\ timersSet = 0
    /\ invocations = 0
    /\ stopped = FALSE
    /\ invokedStopped = FALSE

TimerIdle ==
    /\ schedulerKind = "CandleSyncScheduler"
    /\ timerRunning = FALSE
    /\ intervalId = Undefined
    /\ hasCallback = FALSE
    /\ liveTimers = {}
    /\ timersSet = 0
    /\ invocations = 0
    /\ stopped = FALSE
    /\ invokedStopped = FALSE

\* ---------------------------------------------------------------------------
\* Properties of the timers (checked under SpecTimers)
\* ---------------------------------------------------------------------------

\* C23: the callback is never started while a previous invocation of it is
\* still running, whatever the sequence of start, stop and timer firings.
\* Violated by both schedulers.
C23_NoOverlap == invocations <= 1

\* C26: after stop() has returned and until start is called again, the
\* scheduler holds no live timer and does not invoke the callback.  Violated:
\* the first timeout of UTCScheduler cannot be cleared.
C26_StopIsFinal == stopped => (liveTimers = {} /\ ~invokedStopped)

(***************************************************************************)
(* Market structure (market-structure utils): the swing points of the      *)
(* candles and the signal read from the last four of them.  Between two    *)
(* calls a candle closes.                                                  *)
(***************************************************************************)
VARIABLES
    structureKlines,    \* klineData: a sequence of [high, low, close]
    structureSignal     \* what detectMarketStructureSignal returned last: Null or a signal

structureVars == <<structureKlines, structureSignal>>

MaxStructureCandles == 9
\* detectMarketStructureSignal: klineData.length < 20
MinStructureKlines == 20
\* MarketStructureService config.pivotLength
StructurePivotLength == 2
\* the flat candles the history starts with
FlatHistory == 12

Kline(high, low, close) == [high |-> high, low |-> low, close |-> close]
FlatCandle == Kline(103000, 102000, 102000)
StructureCandles == {FlatCandle, Kline(104000, 102000, 103000), Kline(105000, 101000, 103000)}

StructurePoint(price, index, type) == [price |-> price, index |-> index, type |-> type]

\* detectMarketStructurePoints: the pivot highs of the highs and the pivot lows
\* of the lows, sorted by index (the sort is stable: at one index the high
\* comes first)
detectMarketStructurePoints(klineData, pivotLength) ==
    LET highPrices == [i \in 1..Len(klineData) |-> klineData[i].high]
        lowPrices == [i \in 1..Len(klineData) |-> klineData[i].low]
        pivotHighs == detectPivotHighs(highPrices, pivotLength, pivotLength)
        pivotLows == detectPivotLows(lowPrices, pivotLength, pivotLength)
        highAt == {pivotHighs[k].index : k \in 1..Len(pivotHighs)}
        lowAt == {pivotLows[k].index : k \in 1..Len(pivotLows)}
        slots == [s \in 1..(2 * Len(klineData)) |->
                    IF s % 2 = 1
                    THEN StructurePoint(highPrices[(s + 1) \div 2], (s + 1) \div 2, "HIGH")
                    ELSE StructurePoint(lowPrices[s \div 2], s \div 2, "LOW")]
    IN  SelectSeq(slots, LAMBDA p : IF p.type = "HIGH" THEN p.index \in highAt
                                    ELSE p.index \in lowAt)

\* analyzeMarketStructure: HH, HL, LL, LH in this order, or null
analyzeMarketStructure(structurePoints, currentPrice) ==
    IF Len(structurePoints) < 4 THEN Null
    ELSE LET n == Len(structurePoints)
             lastPoint == structurePoints[n]
             secondLastPoint == structurePoints[n - 1]
             thirdLastPoint == structurePoints[n - 2]
             fourthLastPoint == structurePoints[n - 3]
             highLowHigh == /\ lastPoint.type = "HIGH"
                            /\ secondLastPoint.type = "LOW"
                            /\ thirdLastPoint.type = "HIGH"
             lowHighLow == /\ lastPoint.type = "LOW"
                           /\ secondLastPoint.type = "HIGH"
                           /\ thirdLastPoint.type = "LOW"
         IN  IF /\ highLowHigh
                /\ lastPoint.price > thirdLastPoint.price
                /\ secondLastPoint.price > fourthLastPoint.price
             THEN StructureSignal("HH", currentPrice)
             ELSE IF lowHighLow /\ lastPoint.price > thirdLastPoint.price
             THEN StructureSignal("HL", currentPrice)
             ELSE IF /\ lowHighLow
                     /\ lastPoint.price < thirdLastPoint.price
                     /\ secondLastPoint.price < fourthLastPoint.price
             THEN StructureSignal("LL", currentPrice)
             ELSE IF highLowHigh /\ lastPoint.price < thirdLastPoint.price
             THEN StructureSignal("LH", currentPrice)
             ELSE Null

\* detectMarketStructureSignal
detectMarketStructureSignal(klineData, currentPrice) ==
    IF Len(klineData) < MinStructureKlines THEN Null
    ELSE analyzeMarketStructure(detectMarketStructurePoints(klineData, StructurePivotLength),
                                currentPrice)

\* A candle closes and the signal is looked for in the candles fetched.
DetectMarketStructureSignal ==
    /\ Len(structureKlines) < FlatHistory + MaxStructureCandles
    /\ \E c \in StructureCandles :
          /\ structureKlines' = Append(structureKlines, c)
          /\ structureSignal' = detectMarketStructureSignal(structureKlines', c.close)

StructureInit ==
    /\ structureKlines = [i \in 1..FlatHistory |-> FlatCandle]
    /\ structureSignal = Null

\* ---------------------------------------------------------------------------
\* Properties of the market structure (checked under SpecStructure)
\* ---------------------------------------------------------------------------
LastFourTypes(structurePoints) ==
    [k \in 1..4 |-> structurePoints[Len(structurePoints) - 4 + k].type]

\* C24: a signal is returned only when the last four structure points
\* alternate in type (HIGH,LOW,HIGH,LOW or LOW,HIGH,LOW,HIGH).  Violated:
\* the type of the fourth point from the end is never looked at.
C24_SignalOnlyWhenAlternating ==
    structureSignal # Null =>
        LET points == detectMarketStructurePoints(structureKlines, StructurePivotLength)
        IN  /\ Len(points) >= 4
            /\ LastFourTypes(points) \in {<<"HIGH", "LOW", "HIGH", "LOW">>,
                                          <<"LOW", "HIGH", "LOW", "HIGH">>}

\* ---------------------------------------------------------------------------
\* Profit and loss of the closed records (checked under SpecTracker)
\* ---------------------------------------------------------------------------

\* C25: every record closed as TP_HIT has pnl > 0 and every record closed as
\* SL_HIT has pnl < 0, whatever its kind.  Violated by volume spike records
\* (their severity is not a bullish sub-type) and by RSI divergence records
\* whose levels were computed from the pivot price.
C25_PnlSign ==
    \A i \in 1..Len(signals) :
        /\ signals[i].status = "TP_HIT" => signals[i].pnl[1] > 0
        /\ signals[i].status = "SL_HIT" => signals[i].pnl[1] < 0

(***************************************************************************)
(* The tracker of a bot that follows two symbols: the records carry their  *)
(* symbol, updateSignalStatus is handed a price only.                      *)
(***************************************************************************)
TrackedSymbols == {"BTCUSDT", "ETHUSDT"}

\* the prices seen for each symbol
SymbolPrices == [s \in TrackedSymbols |->
                IF s = "BTCUSDT" THEN {99000, 100000, 102000} ELSE {3000, 4000}]

RecordMACDOf ==
    \E s \in TrackedSymbols, ty \in {"BULLISH", "BEARISH"} : \E c \in SymbolPrices[s] :
        recordMACDDivergence(s, MacdDivergenceSignal(ty, c), c)

RecordStructureOf ==
    \E s \in TrackedSymbols, st \in {"HH", "LL"} : \E c \in SymbolPrices[s] :
        recordMarketStructure(s, StructureSignal(st, c), c)

\* updateSignalStatus with the current price of one of the symbols
UpdateStatusOf ==
    \E s \in TrackedSymbols : \E p \in SymbolPrices[s] : updateSignalStatus(p)

\* C28: a price observed for one symbol never moves a record of another symbol
\* from ACTIVE to TP_HIT or SL_HIT.  Violated: updateSignalStatus compares
\* the price with every ACTIVE record, whatever its symbol.
C28_OtherSymbolsUntouched ==
    [][\A s \in TrackedSymbols : \A p \in SymbolPrices[s] :
          IsUpdateStep(p) =>
              \A i \in 1..Len(signals) :
                  (signals[i].symbol # s /\ signals[i].status = "ACTIVE")
                      => signals'[i].status \in {"ACTIVE", "EXPIRED"}]_trackerVars

\* ---------------------------------------------------------------------------
\* The indicator conditions of a divergence (checked under SpecDivergence)
\* ---------------------------------------------------------------------------

\* the indicator pivots a call compared for the type it returned
IndicatorHighs ==
    IF divIn.fn = "detectRSIDivergence" THEN divIn.rsiHighs
    ELSE IF divIn.fn = "detectMACDDivergence" THEN divIn.macdHighs
    ELSE RsisOf(divIn.peaks)

IndicatorLows ==
    IF divIn.fn = "detectRSIDivergence" THEN divIn.rsiLows
    ELSE IF divIn.fn = "detectMACDDivergence" THEN divIn.macdLows
    ELSE RsisOf(divIn.troughs)

\* the last pivot is lower (higher) than the one before by more than diff
LowerBy(pivots, diff) ==
    Len(pivots) >= 2 /\ pivots[Len(pivots)] < pivots[Len(pivots) - 1] - diff
HigherBy(pivots, diff) ==
    Len(pivots) >= 2 /\ pivots[Len(pivots)] > pivots[Len(pivots) - 1] + diff

\* C29 as stated: every bearish divergence, of the RSI or of the MACD, has its
\* latest indicator pivot high lower than the previous one by more than the
\* configured threshold and at or above the configured upper band, and every
\* bullish one the mirror on the pivot lows.  Violated by detectMACDDivergence
\* and by checkRSIDivergencePattern, which have neither threshold nor band.
C29_AsStated ==
    divOut.type # "PENDING" =>
        /\ divOut.type = "BEARISH" =>
               /\ LowerBy(IndicatorHighs, BearDivergenceDiff)
               /\ IndicatorHighs[Len(IndicatorHighs)] >= BearRsiLevel
        /\ divOut.type = "BULLISH" =>
               /\ HigherBy(IndicatorLows, BullDivergenceDiff)
               /\ IndicatorLows[Len(IndicatorLows)] <= BullRsiLevel

\* C29 (amended): detectRSIDivergence emits a bearish divergence only if the
\* latest RSI pivot high is lower than the previous one by more than
\* bearDivergenceDiff and is at or above bearRsiLevel, a bullish one only if
\* the latest RSI pivot low is higher than the previous one by more than
\* bullDivergenceDiff and is at or below bullRsiLevel; detectMACDDivergence
\* and checkRSIDivergencePattern emit a bearish divergence only if the latest
\* indicator high is strictly lower than the previous one and a bullish one
\* only if the latest indicator low is strictly higher, whatever the levels.
C29_IndicatorConditions ==
    divOut.type # "PENDING" =>
        IF divIn.fn = "detectRSIDivergence"
        THEN /\ divOut.type = "BEARISH" =>
                    /\ LowerBy(IndicatorHighs, BearDivergenceDiff)
                    /\ IndicatorHighs[Len(IndicatorHighs)] >= BearRsiLevel
             /\ divOut.type = "BULLISH" =>
                    /\ HigherBy(IndicatorLows, BullDivergenceDiff)
                    /\ IndicatorLows[Len(IndicatorLows)] <= BullRsiLevel
        ELSE /\ divOut.type = "BEARISH" => LowerBy(IndicatorHighs, 0)
             /\ divOut.type = "BULLISH" => HigherBy(IndicatorLows, 0)

\* detectRSIDivergence has emitted a bullish divergence: its latest RSI pivot
\* low is above the previous one by more than the threshold and within the band
C29_Witness ==
    /\ divOut.type = "BULLISH"
    /\ divIn.fn = "detectRSIDivergence"
    /\ HigherBy(divIn.rsiLows, BullDivergenceDiff)
    /\ divIn.rsiLows[Len(divIn.rsiLows)] <= BullRsiLevel

(***************************************************************************)
(* detectPivotHighs and detectPivotLows (pivot.utils) over a series some    *)
(* of whose values are not numbers.  The series and the bars of a call are  *)
(* its input.                                                               *)
(***************************************************************************)
VARIABLES
    pivotIn,        \* the series and the leftBars / rightBars of the call
    pivotOut        \* the function called and the pivots it returned

pivotCallVars == <<pivotIn, pivotOut>>

MaxSeries == 5

SeriesValues == {1, 2, 3, NotANumber}
SeriesInputs ==
    [data : UNION {[1..n -> SeriesValues] : n \in 3..MaxSeries},
     leftBars : {1, 2}, rightBars : {1, 2}]

NoPivotCall == [fn |-> "none", pivots |-> <<>>]

DetectPivotHighs ==
    /\ pivotOut.fn = "none"
    /\ pivotOut' = [fn |-> "detectPivotHighs",
                    pivots |-> detectPivotHighs(pivotIn.data, pivotIn.leftBars,
                                                pivotIn.rightBars)]
    /\ UNCHANGED pivotIn

DetectPivotLows ==
    /\ pivotOut.fn = "none"
    /\ pivotOut' = [fn |-> "detectPivotLows",
                    pivots |-> detectPivotLows(pivotIn.data, pivotIn.leftBars,
                                               pivotIn.rightBars)]
    /\ UNCHANGED pivotIn

PivotCallInit ==
    /\ pivotIn \in SeriesInputs
    /\ pivotOut = NoPivotCall

PivotCallIdle ==
    /\ pivotIn = [data |-> <<1, 1, 1>>, leftBars |-> 1, rightBars |-> 1]
    /\ pivotOut = NoPivotCall

\* ---------------------------------------------------------------------------
\* Properties of the pivot calls (checked under SpecPivotCall)
\* ---------------------------------------------------------------------------

\* the indices of the window of i, i left out (1-based)
WindowOf(i) ==
    ((i - pivotIn.leftBars)..(i + pivotIn.rightBars)) \ {i}

\* the indices the loop of the call visits (1-based)
Candidates ==
    {i \in 1..Len(pivotIn.data) :
        i > pivotIn.leftBars /\ i <= Len(pivotIn.data) - pivotIn.rightBars}

Returned == {pivotOut.pivots[k].index : k \in 1..Len(pivotOut.pivots)}

\* C30: detectPivotHighs returns the index i, leftBars <= i < n - rightBars,
\* if and only if no number in the window of i other than the value at i is
\* >= the value at i, and detectPivotLows if and only if none is <= it; a
\* neighbour that is not a number is skipped and never disqualifies i.  (An
\* index whose own value is not a number is never returned, and no index
\* outside these limits is.)
C30_PivotCharacterization ==
    pivotOut.fn # "none" =>
        /\ Returned \subseteq Candidates
        /\ \A i \in Candidates :
              i \in Returned <=>
                  /\ IsNumber(pivotIn.data[i])
                  /\ ~ \E j \in WindowOf(i) :
                        /\ IsNumber(pivotIn.data[j])
                        /\ IF pivotOut.fn = "detectPivotHighs"
                           THEN pivotIn.data[j] >= pivotIn.data[i]
                           ELSE pivotIn.data[j] <= pivotIn.data[i]

\* detectPivotHighs has returned an index one of whose neighbours is not a number
C30_Witness ==
    /\ pivotOut.fn = "detectPivotHighs"
    /\ \E i \in Returned : \E j \in WindowOf(i) : ~IsNumber(pivotIn.data[j])

(***************************************************************************)
(* The sub-checks on their own: detectStochasticSignal and                 *)
(* detectBollingerSignal of the scalping service over the last indicator   *)
(* values, detectVolumeSpike of the alert service and of the scalping      *)
(* service over the volumes of the candles.  The values of a call are its  *)
(* input.                                                                  *)
(***************************************************************************)
VARIABLES
    checkIn,        \* the sub-check called and the values handed to it
    checkOut        \* Pending before the call, then Some(alert) or Undefined (null)

checkVars == <<checkIn, checkOut>>

\* calculateAverageVolume(klineData, period = 20); ScalpingConfig.volumePeriod
VolumePeriod == 20
\* VOLUME_SPIKE_THRESHOLD || "1.5", in tenths
AlertSpikeThreshold10 == 15
\* the scalping configuration: volumeSpikeThreshold 2.0, in tenths
ScalpSpikeThreshold10 == 20

StochasticValues ==
    [previousK : {0, 18, 48, 82, 100}, previousD : {20, 50, 80},
     currentK : {0, 22, 29, 30, 50, 71, 78, 100}, currentD : {20, 50, 80}]

BollingerValues ==
    [currentPrice : {98000, 99000, 99050, 99200, 100000, 100950, 101000, 102000},
     currentLower : {99000}, currentUpper : {101000}]

\* the volumes of klineData: `older` candles of volume 1000, then `preceding`
\* candles of one volume, then the latest candle
VolumeSeries(older, preceding, volume, current) ==
    [i \in 1..older |-> 1000] \o [i \in 1..preceding |-> volume] \o <<current>>

VolumeSeriesInputs ==
    {VolumeSeries(o, n, v, c) :
        o \in {0, 1}, n \in {0, 5, VolumePeriod}, v \in {0, 100}, c \in {140, 150, 160, 200}}

CheckInputs ==
    [fn : {"detectStochasticSignal"}, values : StochasticValues]
        \cup [fn : {"detectBollingerSignal"}, values : BollingerValues]
        \cup [fn : {"detectVolumeSpike", "scalpingDetectVolumeSpike"},
              values : VolumeSeriesInputs]

\* calculateAverageVolume, times its period: 0 on fewer than period candles
calculateAverageVolume(volumes, period) ==
    IF Len(volumes) < period THEN 0
    ELSE SumSeq(SubSeq(volumes, Len(volumes) - period + 1, Len(volumes)))

\* (mutant) the latest candle counted in the average
SpikeRatioReachedWithCurrent(volumes, threshold10) ==
    LET total == calculateAverageVolume(volumes, VolumePeriod)
    IN  /\ Len(volumes) >= 2
        /\ total # 0
        /\ 10 * VolumePeriod * volumes[Len(volumes)] >= threshold10 * total

\* detectVolumeSpike up to its test: currentVolume / averageVolume >= threshold,
\* the average taken over klineData.slice(0, -1)
SpikeRatioReached(volumes, threshold10) ==
    LET total == calculateAverageVolume(SubSeq(volumes, 1, Len(volumes) - 1), VolumePeriod)
    IN  /\ Len(volumes) >= 2
        /\ total # 0
        /\ 10 * VolumePeriod * volumes[Len(volumes)] >= threshold10 * total

\* AlertService.detectVolumeSpike: the alert, with spikeRatio as a fraction
detectVolumeSpike(volumes) ==
    IF SpikeRatioReached(volumes, AlertSpikeThreshold10)
    THEN LET total == calculateAverageVolume(SubSeq(volumes, 1, Len(volumes) - 1),
                                             VolumePeriod)
         IN  Some([type |-> "spike", volume |-> volumes[Len(volumes)],
                   averageVolume |-> Ratio(total, VolumePeriod),
                   spikeRatio |-> Ratio(VolumePeriod * volumes[Len(volumes)], total)])
    ELSE Undefined

\* ScalpingService.detectVolumeSpike
scalpingDetectVolumeSpike(volumes) ==
    IF SpikeRatioReached(volumes, ScalpSpikeThreshold10)
    THEN LET total == calculateAverageVolume(SubSeq(volumes, 1, Len(volumes) - 1),
                                             VolumePeriod)
         IN  detectScalpVolumeSpike(Some([currentVolume |-> VolumePeriod * volumes[Len(volumes)],
                                          averageVolume |-> total]), 0)
    ELSE Undefined

CheckStochastic ==
    /\ checkOut = Pending
    /\ checkIn.fn = "detectStochasticSignal"
    /\ checkOut' = detectStochasticSignal(Some(checkIn.values), 0)
    /\ UNCHANGED checkIn

CheckBollinger ==
    /\ checkOut = Pending
    /\ checkIn.fn = "detectBollingerSignal"
    /\ checkOut' = detectBollingerSignal(Some(checkIn.values), 0)
    /\ UNCHANGED checkIn

CheckVolumeSpike ==
    /\ checkOut = Pending
    /\ checkIn.fn = "detectVolumeSpike"
    /\ checkOut' = detectVolumeSpike(checkIn.values)
    /\ UNCHANGED checkIn

CheckScalpingVolumeSpike ==
    /\ checkOut = Pending
    /\ checkIn.fn = "scalpingDetectVolumeSpike"
    /\ checkOut' = scalpingDetectVolumeSpike(checkIn.values)
    /\ UNCHANGED checkIn

CheckInit ==
    /\ checkIn \in CheckInputs
    /\ checkOut = Pending

CheckIdle ==
    /\ checkIn = [fn |-> "detectVolumeSpike", values |-> <<0>>]
    /\ checkOut = Pending

\* ---------------------------------------------------------------------------
\* Properties of the sub-checks (checked under SpecSubChecks)
\* ---------------------------------------------------------------------------
Called(fn) == checkOut # Pending /\ checkIn.fn = fn

\* the alert returned is of the given direction and confidence
Gives(signal, confidence) ==
    /\ checkOut # Undefined
    /\ checkOut[1].signal = signal
    /\ checkOut[1].confidence = Ratio(confidence, 1)

\* C34: the Bollinger sub-check gives BUY when the price is at or below the
\* lower band and SELL when it is at or above the upper band, with confidence
\* 80 when the price is strictly beyond the band and 75 when it touches it.
\* Violated: the two breakout branches come after the touch branches, which
\* take every price beyond a band.
C34_BollingerConfidence ==
    Called("detectBollingerSignal") =>
        LET b == checkIn.values
        IN  /\ b.currentPrice < b.currentLower => Gives("buy", 80)
            /\ b.currentPrice = b.currentLower => Gives("buy", 75)
            /\ b.currentPrice = b.currentUpper => Gives("sell", 75)
            /\ b.currentPrice > b.currentUpper => Gives("sell", 80)

\* C35: the stochastic sub-check returns a BUY alert when %K crosses from at
\* or below %D to above %D while %K is less than 10 points above the oversold
\* line, %K 18 -> 22 with %D 20 for one, and no alert when the cross is at
\* %K = 50.  Violated: the confidence of such a BUY is at most 60 and the
\* configured minConfidence is 70.
C35_StochasticCross ==
    Called("detectStochasticSignal") =>
        LET s == checkIn.values
        IN  /\ (/\ s.previousK <= s.previousD
                /\ s.currentK > s.currentD
                /\ s.currentK < StochasticOversold + 10)
                   => (checkOut # Undefined /\ checkOut[1].signal = "buy")
            /\ s.currentK = 50 => checkOut = Undefined

\* the volumes before the latest candle, and the threshold of the sub-check
PrecedingVolumes == SubSeq(checkIn.values, 1, Len(checkIn.values) - 1)
CurrentVolume == checkIn.values[Len(checkIn.values)]
SpikeThreshold10 ==
    IF checkIn.fn = "detectVolumeSpike" THEN AlertSpikeThreshold10 ELSE ScalpSpikeThreshold10

\* C40 as stated: a volume-spike alert is produced if and only if the current
\* volume is >= threshold x the average volume of the preceding candles.
\* Violated when fewer than 20 candles precede and when their volumes are 0.
C40_AsStated ==
    (checkOut # Pending /\ checkIn.fn \in {"detectVolumeSpike", "scalpingDetectVolumeSpike"}
        /\ PrecedingVolumes # <<>>) =>
        (checkOut # Undefined <=>
            10 * Len(PrecedingVolumes) * CurrentVolume
                >= SpikeThreshold10 * SumSeq(PrecedingVolumes))

\* C40 (amended): a volume-spike alert is produced if and only if at least 20
\* candles precede the current one, the average volume of the last 20 of
\* them is not 0 and the current volume is >= threshold x that average: with
\* 20 preceding candles of volume 100 and threshold 1.5, a current volume of
\* 160 alerts and one of 140 does not.
C40_VolumeSpike ==
    (checkOut # Pending /\ checkIn.fn \in {"detectVolumeSpike", "scalpingDetectVolumeSpike"}) =>
        LET n == Len(PrecedingVolumes)
            lastTotal == SumSeq(SubSeq(PrecedingVolumes, n - VolumePeriod + 1, n))
        IN  checkOut # Undefined <=>
                /\ n >= VolumePeriod
                /\ lastTotal > 0
                /\ 10 * VolumePeriod * CurrentVolume >= SpikeThreshold10 * lastTotal

\* detectVolumeSpike has alerted on a volume of 160 after 20 candles of volume
\* 100 that follow a larger one
C40_Witness ==
    /\ checkIn.fn = "detectVolumeSpike"
    /\ checkOut # Pending
    /\ checkOut # Undefined
    /\ checkIn.values = VolumeSeries(1, VolumePeriod, 100, 160)

(***************************************************************************)
(* SignalTrackerService: queries and clean-up of the registry              *)
(* (checked under SpecRegistry, whose registry holds several records)      *)
(***************************************************************************)
MaxRegistry == 2

\* limit of getRecentSignals (the default is 10)
RecentLimits == {1, 10}
\* daysToKeep * 24 * 60 * 60 * 1000 of cleanupOldSignals, on the scale of ExpiryTime
KeepTimes == {ClockStep, 3 * ClockStep}

QueryOps == {"getStatistics", "getActiveSignals", "getRecentSignals"}

\* s.pnl || 0
PnlOrZero(rec) == IF rec.pnl = Undefined THEN 0 ELSE rec.pnl[1]

RECURSIVE TotalPnl(_)
TotalPnl(recs) ==
    IF recs = <<>> THEN 0
    ELSE TotalPnl(SubSeq(recs, 1, Len(recs) - 1)) + PnlOrZero(recs[Len(recs)])

\* reduce((best, current) => (current.pnl || 0) > (best.pnl || 0) ? current : best)
RECURSIVE BestTrade(_)
BestTrade(recs) ==
    IF Len(recs) = 1 THEN recs[1]
    ELSE LET best == BestTrade(SubSeq(recs, 1, Len(recs) - 1))
             current == recs[Len(recs)]
         IN  IF PnlOrZero(current) > PnlOrZero(best) THEN current ELSE best

RECURSIVE WorstTrade(_)
WorstTrade(recs) ==
    IF Len(recs) = 1 THEN recs[1]
    ELSE LET worst == WorstTrade(SubSeq(recs, 1, Len(recs) - 1))
             current == recs[Len(recs)]
         IN  IF PnlOrZero(current) < PnlOrZero(worst) THEN current ELSE worst

WithStatus(recs, status) == SelectSeq(recs, LAMBDA r : r.status = status)

\* The SignalStatistics computed from a registry (totalPnlPercent,
\* averageDuration, signalTypeStats and timeStats are further sums over the
\* same array and are left out).
Statistics(recs) ==
    LET completedSignals == SelectSeq(recs, LAMBDA r : r.status # "ACTIVE")
        tpHit == WithStatus(recs, "TP_HIT")
        n == Len(completedSignals)
    IN  [totalSignals |-> Len(recs),
         activeSignals |-> Len(WithStatus(recs, "ACTIVE")),
         completedSignals |-> n,
         tpHit |-> Len(tpHit),
         slHit |-> Len(WithStatus(recs, "SL_HIT")),
         expired |-> Len(WithStatus(recs, "EXPIRED")),
         winRate |-> IF n > 0 THEN Ratio(Len(tpHit) * 100, n) ELSE Ratio(0, 1),
         totalPnl |-> TotalPnl(completedSignals),
         averagePnl |-> IF n > 0 THEN Ratio(TotalPnl(completedSignals), n)
                                 ELSE Ratio(0, 1),
         bestTrade |-> IF n > 0 THEN Some(BestTrade(completedSignals)) ELSE Undefined,
         worstTrade |-> IF n > 0 THEN Some(WorstTrade(completedSignals)) ELSE Undefined]

\* Array.prototype.sort((a, b) => b.entryTime - a.entryTime): a stable sort,
\* newest first.
RECURSIVE SortNewestFirst(_)
SortNewestFirst(recs) ==
    IF recs = <<>> THEN <<>>
    ELSE LET rest == SortNewestFirst(SubSeq(recs, 1, Len(recs) - 1))
             rec == recs[Len(recs)]
             k == Cardinality({i \in 1..Len(rest) : rest[i].entryTime >= rec.entryTime})
         IN  SubSeq(rest, 1, k) \o <<rec>> \o SubSeq(rest, k + 1, Len(rest))

Query(op) == lastCall' = [op |-> op, price |-> 0, at |-> now]

getStatistics ==
    /\ trackerReturn' = Statistics(signals)
    /\ Query("getStatistics")
    /\ UNCHANGED <<now, signals>>

getActiveSignals ==
    /\ trackerReturn' = WithStatus(signals, "ACTIVE")
    /\ Query("getActiveSignals")
    /\ UNCHANGED <<now, signals>>

\* this.signals.sort(...) sorts the registry itself; slice copies the head of it
getRecentSignals(limit) ==
    /\ signals' = SortNewestFirst(signals)
    /\ trackerReturn' = SubSeq(signals', 1, IF limit < Len(signals) THEN limit ELSE Len(signals))
    /\ Query("getRecentSignals")
    /\ UNCHANGED now

GetRecentSignals == \E limit \in RecentLimits : getRecentSignals(limit)

cleanupOldSignals(keepTime) ==
    LET cutoffTime == now - keepTime
    IN  /\ signals' = SelectSeq(signals, LAMBDA r : r.entryTime > cutoffTime)
        /\ trackerReturn' = Len(signals) - Len(signals')
        /\ Query("cleanupOldSignals")
        /\ UNCHANGED now

CleanupOldSignals == \E keepTime \in KeepTimes : cleanupOldSignals(keepTime)

\* recordMACDDivergence into a registry of up to MaxRegistry records
RecordInRegistry ==
    \E s \in Symbols, ty \in {"BULLISH", "BEARISH"}, c \in EntryPrices :
        LET signal == MacdDivergenceSignal(ty, c)
        IN  PushUpTo(NewRecord(s, "MACD_DIVERGENCE", signal.type, c,
                               signal.takeProfit, signal.stopLoss,
                               Ratio(Abs(signal.takeProfit - c), Abs(c - signal.stopLoss))),
                     "recordMACDDivergence", MaxRegistry)

\* C33: getStatistics, getActiveSignals and getRecentSignals are pure views:
\* a call of one of them leaves the signal registry, contents and order, as it
\* was.  Violated: getRecentSignals sorts this.signals in place.
C33_QueriesArePure ==
    [][lastCall'.op \in QueryOps => signals' = signals]_trackerVars

\* C39: cleanupOldSignals removes only terminal records: every record that is
\* ACTIVE when it is called is still in the registry afterwards.  Violated: the
\* filter looks at entryTime only.
C39_CleanupKeepsActive ==
    [][lastCall'.op = "cleanupOldSignals"
         => \A i \in 1..Len(signals) :
               signals[i].status = "ACTIVE"
                   => \E j \in 1..Len(signals') : signals'[j] = signals[i]]_trackerVars

(***************************************************************************)
(* One sync tick of the multi-pair bot: the scheduler fires on a candle    *)
(* close of the smallest configured timeframe, executeBotTask fetches the  *)
(* market data of every configured timeframe and                           *)
(* AlertService.processMarketData runs the detectors (one pair; the loop   *)
(* over pairs repeats the same body).                                      *)
(***************************************************************************)
VARIABLES
    configTimeframes,   \* config.timeframes
    syncTick,           \* number of the sync tick being served
    tickPhase,          \* "idle", "fetch" or "process"
    marketDataOf,       \* the timeframes whose fetched klineData is not empty
    evaluated,          \* the timeframes handed to the detectors in this tick
    scalped             \* the timeframes handed to ScalpingService in this tick

tickVars == <<configTimeframes, syncTick, tickPhase, marketDataOf, evaluated, scalped>>

MaxSyncTicks == 3

\* A timeframe string such as "15m": its number and its unit letter.
Timeframe(value, unit) == [value |-> value, unit |-> unit]

ConfigurableTimeframes == {Timeframe(1, "m"), Timeframe(5, "m"), Timeframe(15, "m")}

\* TIMEFRAMES lists: one to three different timeframes in any order
TimeframeLists ==
    {l \in UNION {[1..n -> ConfigurableTimeframes] : n \in 1..3} :
        \A i, j \in 1..Len(l) : i # j => l[i] # l[j]}

DefaultTimeframes == <<Timeframe(5, "m"), Timeframe(15, "m")>>

convertTimeframeToMs(timeframe) ==
    CASE timeframe.unit = "m" -> timeframe.value * 60 * 1000
      [] timeframe.unit = "h" -> timeframe.value * 60 * 60 * 1000
      [] timeframe.unit = "d" -> timeframe.value * 24 * 60 * 60 * 1000
      [] timeframe.unit = "w" -> timeframe.value * 7 * 24 * 60 * 60 * 1000

\* timeframes.reduce((smallest, current) => currentMs < smallestMs ? current : smallest, init)
RECURSIVE ReduceSmallest(_, _)
ReduceSmallest(timeframes, smallest) ==
    IF timeframes = <<>> THEN smallest
    ELSE ReduceSmallest(Tail(timeframes),
                        IF convertTimeframeToMs(Head(timeframes)) < convertTimeframeToMs(smallest)
                        THEN Head(timeframes) ELSE smallest)

getSmallestTimeframe(timeframes) ==
    ReduceSmallest(timeframes,
                   IF timeframes = <<>> THEN Timeframe(5, "m") ELSE timeframes[1])

ConfiguredSet == {configTimeframes[i] : i \in 1..Len(configTimeframes)}

\* the time of the sync tick: a candle close of the smallest timeframe
TickTime == syncTick * convertTimeframeToMs(getSmallestTimeframe(configTimeframes))

\* the sync tick coincides with a candle boundary of the timeframe
OnBoundary(timeframe) == TickTime % convertTimeframeToMs(timeframe) = 0

\* timeframe === "1m"
IsOneMinute(timeframe) == timeframe = Timeframe(1, "m")

\* The scheduler fires executeBotTask.
SyncTickFires ==
    /\ tickPhase = "idle"
    /\ syncTick < MaxSyncTicks
    /\ syncTick' = syncTick + 1
    /\ tickPhase' = "fetch"
    /\ marketDataOf' = {}
    /\ evaluated' = <<>>
    /\ scalped' = <<>>
    /\ UNCHANGED configTimeframes

\* MultiPairMarketService.fetchAllMarketData: every configured timeframe is
\* fetched; a failed fetch leaves klineData empty.
FetchAllTimeframes ==
    /\ tickPhase = "fetch"
    /\ \E failed \in SUBSET ConfiguredSet : marketDataOf' = ConfiguredSet \ failed
    /\ tickPhase' = "process"
    /\ UNCHANGED <<configTimeframes, syncTick, evaluated, scalped>>

\* AlertService.processMarketData: the loop over config.timeframes
AlertProcessMarketData ==
    /\ tickPhase = "process"
    /\ evaluated' = SelectSeq(configTimeframes, LAMBDA t : t \in marketDataOf)
    /\ scalped' = SelectSeq(evaluated', IsOneMinute)
    /\ tickPhase' = "idle"
    /\ UNCHANGED <<configTimeframes, syncTick, marketDataOf>>

TickInit ==
    /\ configTimeframes \in TimeframeLists
    /\ syncTick = 0
    /\ tickPhase = "idle"
    /\ marketDataOf = {}
    /\ evaluated = <<>>
    /\ scalped = <<>>

TickIdle ==
    /\ configTimeframes = DefaultTimeframes
    /\ syncTick = 0
    /\ tickPhase = "idle"
    /\ marketDataOf = {}
    /\ evaluated = <<>>
    /\ scalped = <<>>

InSeq(x, s) == \E i \in 1..Len(s) : s[i] = x

\* a tick has been served to the end
TickServed == tickPhase = "idle" /\ syncTick > 0

\* C32: in a served tick a configured timeframe (whose data was fetched) has
\* been evaluated if and only if the tick coincides with one of its candle
\* boundaries.  Violated: every configured timeframe with data is evaluated
\* on every sync tick.
C32_EvaluatedOnBoundaryOnly ==
    TickServed =>
        \A t \in marketDataOf : InSeq(t, evaluated) <=> OnBoundary(t)

\* C36: in a served tick the scalping sub-checks have run for a timeframe
\* (whose data was fetched) if and only if it is the shortest timeframe of the
\* configured list.  Violated: they run for "1m" and for nothing else, so a
\* list without "1m" never gets them.
C36_ScalpingOnShortest ==
    TickServed =>
        \A t \in marketDataOf :
            InSeq(t, scalped) <=> t = getSmallestTimeframe(configTimeframes)

(***************************************************************************)
(* The per-key trackers of the alert detectors and their files:            *)
(*   ScalpingService.tracker              (data/scalping-tracker.json)     *)
(*   AlertService.divergenceTracker       (divergence-tracker.json)        *)
(*   RSIDivergenceService.divergenceTracker                                *)
(*                                        (data/rsi-divergence-tracker.json)*)
(* One of the three services is followed.  The entry of a symbol/timeframe *)
(* is Undefined while tracker[symbol][timeframe] does not exist; its       *)
(* history (candles or rsiData) is kept by open time, counted in candles   *)
(* of one clock step.  Whether the candles of a call show the pattern the  *)
(* detector looks for is an input of the call.                             *)
(***************************************************************************)
VARIABLES
    alertService,   \* the service followed
    alertTick,      \* number of clock steps since the service was built
    alertTracker,   \* this.tracker / this.divergenceTracker, by symbol/timeframe
    alertFile,      \* the lastAlertTime of each key as last written to the service's file
    alertCall       \* history: the last detector call and what it returned

alertVars == <<alertService, alertTick, alertTracker, alertFile, alertCall>>

MaxAlertTicks == 2
\* one step of the clock: one candle, in ms
AlertClockStep == 3600000
\* Date.now() when the service is built: as with any real Date.now(),
\* Date.now() - 0 is longer than every cooldown
AlertEpoch == 7200000

\* const oneHour = 60 * 60 * 1000 of detectVolumeDivergence
OneHour == 3600000
\* const twoHours = 2 * 60 * 60 * 1000 of detectRSIDivergence
TwoHours == 7200000

AlertServices == {"ScalpingService", "AlertService", "RSIDivergenceService"}

\* klineData.length of a call: too few candles for either divergence detector,
\* and enough for both (short enough for rsiData to stay below the 50 points
\* it is cut to)
AlertKlineLengths == {3, 40}
AlertKeys == {<<"BTCUSDT", "1m">>, <<"ETHUSDT", "1m">>}

AlertNow == AlertEpoch + alertTick * AlertClockStep

TrackerEntry(history, lastAlertTime) ==
    Some([history |-> history, lastAlertTime |-> lastAlertTime])

HistoryOf(entry) == IF entry = Undefined THEN <<>> ELSE entry[1].history

LastAlertOf(entry) == IF entry = Undefined THEN Undefined ELSE entry[1].lastAlertTime

\* tracker.lastAlertTime || 0
LastAlertOrZero(entry) ==
    IF LastAlertOf(entry) = Undefined THEN 0 ELSE LastAlertOf(entry)[1]

\* initializeTracker(symbol, timeframe)
InitializedEntry(entry) ==
    IF entry = Undefined THEN TrackerEntry(<<>>, Undefined) ELSE entry

\* What a call does to the entry of its key and what it returns.
CallResult(entry, returned, saved) ==
    [entry |-> entry, returned |-> returned, saved |-> saved]

\* (mutant) a tracker that is not keyed: one state for every symbol/timeframe
WriteEntryUnkeyed(trackers, key, entry) == [k \in DOMAIN trackers |-> entry]

\* this.tracker[symbol][timeframe] = entry
WriteEntry(trackers, key, entry) == [trackers EXCEPT ![key] = entry]

\* ScalpingService.shouldSendAlert on the entry of the key
CooldownElapsed(entry, at) ==
    IF entry = Undefined THEN TRUE
    ELSE at - LastAlertOrZero(entry) >= AlertCooldown

\* ScalpingService.processMarketData with `detected` alerts found by the four
\* sub-checks: updateLastAlertTime runs once per alert pushed.
scalpingProcessMarketData(entry, detected, at) ==
    IF ~CooldownElapsed(entry, at) \/ detected = 0
    THEN CallResult(entry, 0, FALSE)
    ELSE CallResult(TrackerEntry(HistoryOf(entry), Some(at)), detected, TRUE)

\* klineData.slice(-divergenceCandleCount - 1, -1)
ClosedCandles(klineTimes) ==
    LET n == Len(klineTimes)
    IN  SubSeq(klineTimes,
               IF n > DivergenceCandleCount + 1 THEN n - DivergenceCandleCount ELSE 1,
               n - 1)

\* AlertService.detectVolumeDivergence on the entry of its key
alertDetectVolumeDivergence(entry, klineTimes, isDivergence, at) ==
    IF Len(klineTimes) < DivergenceCandleCount THEN CallResult(entry, 0, FALSE)
    ELSE IF Len(ClosedCandles(klineTimes)) < DivergenceCandleCount
    THEN CallResult(InitializedEntry(entry), 0, FALSE)
    ELSE LET history == updateTrackerWithClosedCandles(HistoryOf(entry),
                                                       ClosedCandles(klineTimes))
         IN  IF ~isDivergence
             THEN CallResult(TrackerEntry(history, LastAlertOf(entry)), 0, FALSE)
             ELSE IF at - LastAlertOrZero(entry) < OneHour
             THEN CallResult(TrackerEntry(history, LastAlertOf(entry)), 0, FALSE)
             ELSE CallResult(TrackerEntry(history, Some(at)), 1, TRUE)

\* (mutant) lastAlertTime is stamped as soon as a divergence is found, before
\* the duplicate test
detectRSIDivergenceStampFirst(entry, klineTimes, divergence, at) ==
    LET rsiCount == RsiValueCount(Len(klineTimes), RsiPeriod)
    IN  IF Len(klineTimes) < RsiPeriod + RsiDivergenceLookback
        THEN CallResult(entry, 0, FALSE)
        ELSE IF rsiCount = 0 THEN CallResult(InitializedEntry(entry), 0, FALSE)
        ELSE LET history == updateTrackerWithRSIData(HistoryOf(entry), klineTimes, rsiCount)
             IN  IF Len(history) < RsiDivergenceLookback \/ ~divergence
                 THEN CallResult(TrackerEntry(history, LastAlertOf(entry)), 0, FALSE)
                 ELSE CallResult(TrackerEntry(history, Some(at)),
                                 IF at - LastAlertOrZero(entry) < TwoHours THEN 0 ELSE 1,
                                 TRUE)

\* RSIDivergenceService.detectRSIDivergence on the entry of its key
alertDetectRSIDivergence(entry, klineTimes, divergence, at) ==
    LET rsiCount == RsiValueCount(Len(klineTimes), RsiPeriod)
    IN  IF Len(klineTimes) < RsiPeriod + RsiDivergenceLookback
        THEN CallResult(entry, 0, FALSE)
        ELSE IF rsiCount = 0 THEN CallResult(InitializedEntry(entry), 0, FALSE)
        ELSE LET history == updateTrackerWithRSIData(HistoryOf(entry), klineTimes, rsiCount)
             IN  IF Len(history) < RsiDivergenceLookback \/ ~divergence
                 THEN CallResult(TrackerEntry(history, LastAlertOf(entry)), 0, FALSE)
                 ELSE IF at - LastAlertOrZero(entry) < TwoHours
                 THEN CallResult(TrackerEntry(history, LastAlertOf(entry)), 0, FALSE)
                 ELSE CallResult(TrackerEntry(history, Some(at)), 1, TRUE)

\* JSON.stringify(this.tracker): the lastAlertTime fields it writes (the
\* histories written with them are not followed)
LastAlertTimes(trackers) == [k \in DOMAIN trackers |-> LastAlertOf(trackers[k])]

\* A call of the followed service for one key: the entry of the key is
\* replaced and, if the call saved, the whole tracker is written to the file.
TrackerCall(service, key, result, found) ==
    /\ alertService = service
    /\ alertTracker' = WriteEntry(alertTracker, key, result.entry)
    /\ alertFile' = IF result.saved THEN LastAlertTimes(alertTracker') ELSE alertFile
    /\ alertCall' = [key |-> key, at |-> AlertNow, found |-> found,
                     returned |-> result.returned]
    /\ UNCHANGED <<alertService, alertTick>>

ScalpingTick ==
    \E key \in AlertKeys, e \in EmaInputs, st \in StochasticInputs,
       b \in BollingerInputs, v \in VolumeInputs :
        LET detected == Len(PushedAlerts(<< detectEMACrossover(e, AlertNow),
                                            detectStochasticSignal(st, AlertNow),
                                            detectBollingerSignal(b, AlertNow),
                                            detectScalpVolumeSpike(v, AlertNow) >>))
        IN  TrackerCall("ScalpingService", key,
                        scalpingProcessMarketData(alertTracker[key], detected, AlertNow),
                        detected > 0)

VolumeDivergenceTick ==
    \E key \in AlertKeys, n \in AlertKlineLengths, isDivergence \in BOOLEAN :
        TrackerCall("AlertService", key,
                    alertDetectVolumeDivergence(alertTracker[key],
                                                KlineOpenTimes(n, alertTick),
                                                isDivergence, AlertNow),
                    isDivergence)

RSIDivergenceTick ==
    \E key \in AlertKeys, n \in AlertKlineLengths, divergence \in BOOLEAN :
        TrackerCall("RSIDivergenceService", key,
                    alertDetectRSIDivergence(alertTracker[key],
                                             KlineOpenTimes(n, alertTick),
                                             divergence, AlertNow),
                    divergence)

AlertClock ==
    /\ alertTick < MaxAlertTicks
    /\ alertTick' = alertTick + 1
    /\ UNCHANGED <<alertService, alertTracker, alertFile, alertCall>>

NoAlertCall == [key |-> <<"none", "none">>, at |-> 0, found |-> FALSE, returned |-> 0]

AlertInit ==
    /\ alertService \in AlertServices
    /\ alertTick = 0
    /\ alertTracker = [k \in AlertKeys |-> Undefined]
    /\ alertFile = [k \in AlertKeys |-> Undefined]
    /\ alertCall = NoAlertCall

AlertIdle == AlertInit /\ alertService = "AlertService"

C37_AdvancedOnlyWithAlert ==
    [][\A k \in AlertKeys :
          (\/ LastAlertOf(alertTracker'[k]) # LastAlertOf(alertTracker[k])
           \/ alertFile'[k] # alertFile[k])
              => /\ alertCall'.key = k
                 /\ alertCall'.returned > 0
                 /\ alertCall'.at = AlertNow
                 /\ LastAlertOf(alertTracker'[k]) = Some(AlertNow)
                 /\ alertFile'[k] = Some(AlertNow)
      ]_alertVars

\* a call that found its pattern inside the duplicate window returned nothing
\* and the stamp of its key is still the older one, in memory and in the file
C37_Witness ==
    /\ alertCall.found /\ alertCall.returned = 0
    /\ alertCall.key \in AlertKeys
    /\ LastAlertOf(alertTracker[alertCall.key]) # Undefined
    /\ LastAlertOf(alertTracker[alertCall.key])[1] < alertCall.at
    /\ alertFile[alertCall.key] = LastAlertOf(alertTracker[alertCall.key])

(***************************************************************************)
(* Specifications: one per service, the other services standing still.     *)
(***************************************************************************)
vars == <<trackerVars, cooldownVars, scalpVars, botVars, multiVars, pivotVars, tpslVars, rsiVars, divVars, schedVars, indVars, persistVars, historyVars, actionVars, timerVars, structureVars, pivotCallVars, checkVars, tickVars, alertVars>>
exceptTracker == <<cooldownVars, scalpVars, botVars, multiVars, pivotVars, tpslVars, rsiVars, divVars, schedVars, indVars, persistVars, historyVars, actionVars, timerVars, structureVars, pivotCallVars, checkVars, tickVars, alertVars>>
exceptCooldown == <<trackerVars, scalpVars, botVars, multiVars, pivotVars, tpslVars, rsiVars, divVars, schedVars, indVars, persistVars, historyVars, actionVars, timerVars, structureVars, pivotCallVars, checkVars, tickVars, alertVars>>
exceptScalp == <<trackerVars, cooldownVars, botVars, multiVars, pivotVars, tpslVars, rsiVars, divVars, schedVars, indVars, persistVars, historyVars, actionVars, timerVars, structureVars, pivotCallVars, checkVars, tickVars, alertVars>>
exceptBot == <<trackerVars, cooldownVars, scalpVars, multiVars, pivotVars, tpslVars, rsiVars, divVars, schedVars, indVars, persistVars, historyVars, actionVars, timerVars, structureVars, pivotCallVars, checkVars, tickVars, alertVars>>
exceptMulti == <<trackerVars, cooldownVars, scalpVars, botVars, pivotVars, tpslVars, rsiVars, divVars, schedVars, indVars, persistVars, historyVars, actionVars, timerVars, structureVars, pivotCallVars, checkVars, tickVars, alertVars>>
exceptPivot == <<trackerVars, cooldownVars, scalpVars, botVars, multiVars, tpslVars, rsiVars, divVars, schedVars, indVars, persistVars, historyVars, actionVars, timerVars, structureVars, pivotCallVars, checkVars, tickVars, alertVars>>
exceptTpsl == <<trackerVars, cooldownVars, scalpVars, botVars, multiVars, pivotVars, rsiVars, divVars, schedVars, indVars, persistVars, historyVars, actionVars, timerVars, structureVars, pivotCallVars, checkVars, tickVars, alertVars>>
exceptRsi == <<trackerVars, cooldownVars, scalpVars, botVars, multiVars, pivotVars, tpslVars, divVars, schedVars, indVars, persistVars, historyVars, actionVars, timerVars, structureVars, pivotCallVars, checkVars, tickVars, alertVars>>
exceptDiv == <<trackerVars, cooldownVars, scalpVars, botVars, multiVars, pivotVars, tpslVars, rsiVars, schedVars, indVars, persistVars, historyVars, actionVars, timerVars, structureVars, pivotCallVars, checkVars, tickVars, alertVars>>
exceptSched == <<trackerVars, cooldownVars, scalpVars, botVars, multiVars, pivotVars, tpslVars, rsiVars, divVars, indVars, persistVars, historyVars, actionVars, timerVars, structureVars, pivotCallVars, checkVars, tickVars, alertVars>>
exceptInd == <<trackerVars, cooldownVars, scalpVars, botVars, multiVars, pivotVars, tpslVars, rsiVars, divVars, schedVars, persistVars, historyVars, actionVars, timerVars, structureVars, pivotCallVars, checkVars, tickVars, alertVars>>
exceptPersist == <<trackerVars, cooldownVars, scalpVars, botVars, multiVars, pivotVars, tpslVars, rsiVars, divVars, schedVars, indVars, historyVars, actionVars, timerVars, structureVars, pivotCallVars, checkVars, tickVars, alertVars>>
exceptHistory == <<trackerVars, cooldownVars, scalpVars, botVars, multiVars, pivotVars, tpslVars, rsiVars, divVars, schedVars, indVars, persistVars, actionVars, timerVars, structureVars, pivotCallVars, checkVars, tickVars, alertVars>>
exceptAction == <<trackerVars, cooldownVars, scalpVars, botVars, multiVars, pivotVars, tpslVars, rsiVars, divVars, schedVars, indVars, persistVars, historyVars, timerVars, structureVars, pivotCallVars, checkVars, tickVars, alertVars>>
exceptTimer == <<trackerVars, cooldownVars, scalpVars, botVars, multiVars, pivotVars, tpslVars, rsiVars, divVars, schedVars, indVars, persistVars, historyVars, actionVars, structureVars, pivotCallVars, checkVars, tickVars, alertVars>>
exceptStructure == <<trackerVars, cooldownVars, scalpVars, botVars, multiVars, pivotVars, tpslVars, rsiVars, divVars, schedVars, indVars, persistVars, historyVars, actionVars, timerVars, pivotCallVars, checkVars, tickVars, alertVars>>
exceptPivotCall == <<trackerVars, cooldownVars, scalpVars, botVars, multiVars, pivotVars, tpslVars, rsiVars, divVars, schedVars, indVars, persistVars, historyVars, actionVars, timerVars, structureVars, checkVars, tickVars, alertVars>>
exceptCheck == <<trackerVars, cooldownVars, scalpVars, botVars, multiVars, pivotVars, tpslVars, rsiVars, divVars, schedVars, indVars, persistVars, historyVars, actionVars, timerVars, structureVars, pivotCallVars, tickVars, alertVars>>
exceptTick == <<trackerVars, cooldownVars, scalpVars, botVars, multiVars, pivotVars, tpslVars, rsiVars, divVars, schedVars, indVars, persistVars, historyVars, actionVars, timerVars, structureVars, pivotCallVars, checkVars, alertVars>>
exceptAlert == <<trackerVars, cooldownVars, scalpVars, botVars, multiVars, pivotVars, tpslVars, rsiVars, divVars, schedVars, indVars, persistVars, historyVars, actionVars, timerVars, structureVars, pivotCallVars, checkVars, tickVars>>

TrackerNext ==
    \/ RecordRSI /\ UNCHANGED exceptTracker
    \/ RecordMACD /\ UNCHANGED exceptTracker
    \/ RecordStructure /\ UNCHANGED exceptTracker
    \/ RecordSpike /\ UNCHANGED exceptTracker
    \/ RecordVolumeDivergence /\ UNCHANGED exceptTracker
    \/ UpdateStatus /\ UNCHANGED exceptTracker
    \/ TrackerClock /\ UNCHANGED exceptTracker

InitTracker == TrackerInit /\ CooldownIdle /\ ScalpInit /\ BotInit /\ MultiInit /\ PivotInit /\ TpslInit /\ RsiInit /\ DivIdle /\ SchedInit /\ IndInit /\ PersistIdle /\ HistoryIdle /\ ActionInit /\ TimerIdle /\ StructureInit /\ PivotCallIdle /\ CheckIdle /\ TickIdle /\ AlertIdle

SpecTracker == InitTracker /\ [][TrackerNext]_vars

CooldownNext ==
    \/ checkForDivergenceSignal /\ UNCHANGED exceptCooldown
    \/ checkForMACDDivergenceSignal /\ UNCHANGED exceptCooldown
    \/ checkForStructureSignal /\ UNCHANGED exceptCooldown
    \/ checkForVolumeDivergenceSignal /\ UNCHANGED exceptCooldown
    \/ CooldownClock /\ UNCHANGED exceptCooldown

InitCooldown == CooldownInit /\ TrackerInit /\ ScalpInit /\ BotInit /\ MultiInit /\ PivotInit /\ TpslInit /\ RsiInit /\ DivIdle /\ SchedInit /\ IndInit /\ PersistIdle /\ HistoryIdle /\ ActionInit /\ TimerIdle /\ StructureInit /\ PivotCallIdle /\ CheckIdle /\ TickIdle /\ AlertIdle

SpecCooldown == InitCooldown /\ [][CooldownNext]_vars

ScalpNext ==
    \/ ProcessMarketData /\ UNCHANGED exceptScalp
    \/ ScalpClock /\ UNCHANGED exceptScalp

InitScalp == ScalpInit /\ TrackerInit /\ CooldownIdle /\ BotInit /\ MultiInit /\ PivotInit /\ TpslInit /\ RsiInit /\ DivIdle /\ SchedInit /\ IndInit /\ PersistIdle /\ HistoryIdle /\ ActionInit /\ TimerIdle /\ StructureInit /\ PivotCallIdle /\ CheckIdle /\ TickIdle /\ AlertIdle

SpecScalping == InitScalp /\ [][ScalpNext]_vars

BotNext ==
    \/ ExecuteBotTask /\ UNCHANGED exceptBot

InitBot == BotInit /\ TrackerInit /\ CooldownIdle /\ ScalpInit /\ MultiInit /\ PivotInit /\ TpslInit /\ RsiInit /\ DivIdle /\ SchedInit /\ IndInit /\ PersistIdle /\ HistoryIdle /\ ActionInit /\ TimerIdle /\ StructureInit /\ PivotCallIdle /\ CheckIdle /\ TickIdle /\ AlertIdle

SpecBotTask == InitBot /\ [][BotNext]_vars

MultiNext ==
    \/ ExecuteMultiPairTask /\ UNCHANGED exceptMulti

InitMulti == MultiInit /\ TrackerInit /\ CooldownIdle /\ ScalpInit /\ BotInit /\ PivotInit /\ TpslInit /\ RsiInit /\ DivIdle /\ SchedInit /\ IndInit /\ PersistIdle /\ HistoryIdle /\ ActionInit /\ TimerIdle /\ StructureInit /\ PivotCallIdle /\ CheckIdle /\ TickIdle /\ AlertIdle

SpecMultiPair == InitMulti /\ [][MultiNext]_vars

PivotNext ==
    \/ CandleOpens /\ UNCHANGED exceptPivot
    \/ LastCandleMoves /\ UNCHANGED exceptPivot

InitPivot ==
    PivotInit /\ TrackerInit /\ CooldownIdle /\ ScalpInit /\ BotInit /\ MultiInit /\ TpslInit /\ RsiInit /\ DivIdle /\ SchedInit /\ IndInit /\ PersistIdle /\ HistoryIdle /\ ActionInit /\ TimerIdle /\ StructureInit /\ PivotCallIdle /\ CheckIdle /\ TickIdle /\ AlertIdle

SpecPivot == InitPivot /\ [][PivotNext]_vars

TpslNext ==
    \/ CalculateRSIDivergenceTPSL /\ UNCHANGED exceptTpsl
    \/ CalculateMarketStructureTPSL /\ UNCHANGED exceptTpsl

InitTpsl ==
    TpslInit /\ TrackerInit /\ CooldownIdle /\ ScalpInit /\ BotInit /\ MultiInit /\ PivotInit /\ RsiInit /\ DivIdle /\ SchedInit /\ IndInit /\ PersistIdle /\ HistoryIdle /\ ActionInit /\ TimerIdle /\ StructureInit /\ PivotCallIdle /\ CheckIdle /\ TickIdle /\ AlertIdle

SpecTpsl == InitTpsl /\ [][TpslNext]_vars

RsiNext ==
    \/ CalculateRSI /\ UNCHANGED exceptRsi
    \/ ServiceCalculateRSI /\ UNCHANGED exceptRsi

InitRsi ==
    RsiInit /\ TrackerInit /\ CooldownIdle /\ ScalpInit /\ BotInit /\ MultiInit /\ PivotInit /\ TpslInit /\ DivIdle /\ SchedInit /\ IndInit /\ PersistIdle /\ HistoryIdle /\ ActionInit /\ TimerIdle /\ StructureInit /\ PivotCallIdle /\ CheckIdle /\ TickIdle /\ AlertIdle

SpecRsi == InitRsi /\ [][RsiNext]_vars

DivNext ==
    \/ DetectRSIDivergence /\ UNCHANGED exceptDiv
    \/ CheckRSIDivergencePattern /\ UNCHANGED exceptDiv
    \/ DetectMACDDivergence /\ UNCHANGED exceptDiv

InitDiv ==
    DivInit /\ TrackerInit /\ CooldownIdle /\ ScalpInit /\ BotInit /\ MultiInit /\ PivotInit /\ TpslInit /\ RsiInit /\ SchedInit /\ IndInit /\ PersistIdle /\ HistoryIdle /\ ActionInit /\ TimerIdle /\ StructureInit /\ PivotCallIdle /\ CheckIdle /\ TickIdle /\ AlertIdle

SpecDivergence == InitDiv /\ [][DivNext]_vars

SchedNext ==
    \/ SchedulerStart /\ UNCHANGED exceptSched
    \/ SchedulerStop /\ UNCHANGED exceptSched
    \/ ExecuteAndScheduleNext /\ UNCHANGED exceptSched
    \/ SchedClock /\ UNCHANGED exceptSched

InitSched ==
    SchedInit /\ TrackerInit /\ CooldownIdle /\ ScalpInit /\ BotInit /\ MultiInit /\ PivotInit /\ TpslInit /\ RsiInit /\ DivIdle /\ IndInit /\ PersistIdle /\ HistoryIdle /\ ActionInit /\ TimerIdle /\ StructureInit /\ PivotCallIdle /\ CheckIdle /\ TickIdle /\ AlertIdle

SpecScheduler == InitSched /\ [][SchedNext]_vars

IndNext ==
    \/ CallCalculateRSI /\ UNCHANGED exceptInd
    \/ CallCalculateRSIValues /\ UNCHANGED exceptInd
    \/ CallScalpingEMA /\ UNCHANGED exceptInd
    \/ CallCalculateEMA /\ UNCHANGED exceptInd
    \/ CallCalculateMACDValues /\ UNCHANGED exceptInd
    \/ CallCalculateStochastic /\ UNCHANGED exceptInd
    \/ CallCalculateBollingerBands /\ UNCHANGED exceptInd
    \/ CallCalculateATR /\ UNCHANGED exceptInd
    \/ CallCalculateVWAP /\ UNCHANGED exceptInd

InitInd ==
    IndInit /\ TrackerInit /\ CooldownIdle /\ ScalpInit /\ BotInit /\ MultiInit /\ PivotInit /\ TpslInit /\ RsiInit /\ DivIdle /\ SchedInit /\ PersistIdle /\ HistoryIdle /\ ActionInit /\ TimerIdle /\ StructureInit /\ PivotCallIdle /\ CheckIdle /\ TickIdle /\ AlertIdle

SpecIndicators == InitInd /\ [][IndNext]_vars

PersistNext ==
    \/ Construct /\ UNCHANGED exceptPersist
    \/ ChangeAndSave /\ UNCHANGED exceptPersist
    \/ ClearAndSave /\ UNCHANGED exceptPersist
    \/ Restart /\ UNCHANGED exceptPersist
    \/ IoChanges /\ UNCHANGED exceptPersist
    \/ FileDamaged /\ UNCHANGED exceptPersist

InitPersist ==
    PersistInit /\ TrackerInit /\ CooldownIdle /\ ScalpInit /\ BotInit /\ MultiInit /\ PivotInit /\ TpslInit /\ RsiInit /\ DivIdle /\ SchedInit /\ IndInit /\ HistoryIdle /\ ActionInit /\ TimerIdle /\ StructureInit /\ PivotCallIdle /\ CheckIdle /\ TickIdle /\ AlertIdle

SpecPersistence == InitPersist /\ [][PersistNext]_vars

HistoryNext ==
    \/ DetectVolumeDivergence /\ UNCHANGED exceptHistory
    \/ DetectRSIDivergenceTick /\ UNCHANGED exceptHistory
    \/ CandleCloses /\ UNCHANGED exceptHistory

InitHistory ==
    HistoryInit /\ TrackerInit /\ CooldownIdle /\ ScalpInit /\ BotInit /\ MultiInit /\ PivotInit /\ TpslInit /\ RsiInit /\ DivIdle /\ SchedInit /\ IndInit /\ PersistIdle /\ ActionInit /\ TimerIdle /\ StructureInit /\ PivotCallIdle /\ CheckIdle /\ TickIdle /\ AlertIdle

SpecHistory == InitHistory /\ [][HistoryNext]_vars

RiskRewardNext ==
    \/ CalculateRSIDivergenceTPSL /\ UNCHANGED exceptTpsl
    \/ CalculateMarketStructureTPSL /\ UNCHANGED exceptTpsl
    \/ RecordRSI /\ UNCHANGED exceptTracker
    \/ RecordMACD /\ UNCHANGED exceptTracker
    \/ RecordStructure /\ UNCHANGED exceptTracker
    \/ RecordSpike /\ UNCHANGED exceptTracker
    \/ RecordVolumeDivergence /\ UNCHANGED exceptTracker

SpecRiskReward == InitTpsl /\ [][RiskRewardNext]_vars

ActionNext ==
    \/ QueueAction /\ UNCHANGED exceptAction
    \/ ExecutePendingActions /\ UNCHANGED exceptAction
    \/ ExecuteWhileProcessing /\ UNCHANGED exceptAction
    \/ ExecutorSettles /\ UNCHANGED exceptAction
    \/ CancelAction /\ UNCHANGED exceptAction
    \/ ClearHistory /\ UNCHANGED exceptAction

InitAction ==
    ActionInit /\ TrackerInit /\ CooldownIdle /\ ScalpInit /\ BotInit /\ MultiInit /\ PivotInit /\ TpslInit /\ RsiInit /\ DivIdle /\ SchedInit /\ IndInit /\ PersistIdle /\ HistoryIdle /\ TimerIdle /\ StructureInit /\ PivotCallIdle /\ CheckIdle /\ TickIdle /\ AlertIdle

SpecActions == InitAction /\ [][ActionNext]_vars

TimerNext ==
    \/ TimerStart /\ UNCHANGED exceptTimer
    \/ TimerStop /\ UNCHANGED exceptTimer
    \/ CandleTimerFires /\ UNCHANGED exceptTimer
    \/ CandleCallbackSettles /\ UNCHANGED exceptTimer
    \/ UTCTimeoutFires /\ UNCHANGED exceptTimer
    \/ UTCIntervalFires /\ UNCHANGED exceptTimer
    \/ UTCCallbackSettles /\ UNCHANGED exceptTimer

InitTimer ==
    TimerInit /\ TrackerInit /\ CooldownIdle /\ ScalpInit /\ BotInit /\ MultiInit /\ PivotInit /\ TpslInit /\ RsiInit /\ DivIdle /\ SchedInit /\ IndInit /\ PersistIdle /\ HistoryIdle /\ ActionInit /\ StructureInit /\ PivotCallIdle /\ CheckIdle /\ TickIdle /\ AlertIdle

SpecTimers == InitTimer /\ [][TimerNext]_vars

StructureNext ==
    \/ DetectMarketStructureSignal /\ UNCHANGED exceptStructure

InitStructure ==
    StructureInit /\ TrackerInit /\ CooldownIdle /\ ScalpInit /\ BotInit /\ MultiInit /\ PivotInit /\ TpslInit /\ RsiInit /\ DivIdle /\ SchedInit /\ IndInit /\ PersistIdle /\ HistoryIdle /\ ActionInit /\ TimerIdle /\ PivotCallIdle /\ CheckIdle /\ TickIdle /\ AlertIdle

SpecStructure == InitStructure /\ [][StructureNext]_vars

SymbolsNext ==
    \/ RecordMACDOf /\ UNCHANGED exceptTracker
    \/ RecordStructureOf /\ UNCHANGED exceptTracker
    \/ UpdateStatusOf /\ UNCHANGED exceptTracker
    \/ TrackerClock /\ UNCHANGED exceptTracker

SpecTrackedSymbols == InitTracker /\ [][SymbolsNext]_vars

PivotCallNext ==
    \/ DetectPivotHighs /\ UNCHANGED exceptPivotCall
    \/ DetectPivotLows /\ UNCHANGED exceptPivotCall

InitPivotCall ==
    PivotCallInit /\ TrackerInit /\ CooldownIdle /\ ScalpInit /\ BotInit /\ MultiInit /\ PivotInit /\ TpslInit /\ RsiInit /\ DivIdle /\ SchedInit /\ IndInit /\ PersistIdle /\ HistoryIdle /\ ActionInit /\ TimerIdle /\ StructureInit /\ CheckIdle /\ TickIdle /\ AlertIdle

SpecPivotCall == InitPivotCall /\ [][PivotCallNext]_vars

CheckNext ==
    \/ CheckStochastic /\ UNCHANGED exceptCheck
    \/ CheckBollinger /\ UNCHANGED exceptCheck
    \/ CheckVolumeSpike /\ UNCHANGED exceptCheck
    \/ CheckScalpingVolumeSpike /\ UNCHANGED exceptCheck

InitCheck ==
    CheckInit /\ TrackerInit /\ CooldownIdle /\ ScalpInit /\ BotInit /\ MultiInit /\ PivotInit /\ TpslInit /\ RsiInit /\ DivIdle /\ SchedInit /\ IndInit /\ PersistIdle /\ HistoryIdle /\ ActionInit /\ TimerIdle /\ StructureInit /\ PivotCallIdle /\ TickIdle /\ AlertIdle

SpecSubChecks == InitCheck /\ [][CheckNext]_vars

RegistryNext ==
    \/ RecordInRegistry /\ UNCHANGED exceptTracker
    \/ UpdateStatus /\ UNCHANGED exceptTracker
    \/ TrackerClock /\ UNCHANGED exceptTracker
    \/ getStatistics /\ UNCHANGED exceptTracker
    \/ getActiveSignals /\ UNCHANGED exceptTracker
    \/ GetRecentSignals /\ UNCHANGED exceptTracker
    \/ CleanupOldSignals /\ UNCHANGED exceptTracker

SpecRegistry == InitTracker /\ [][RegistryNext]_vars

TickNext ==
    \/ SyncTickFires /\ UNCHANGED exceptTick
    \/ FetchAllTimeframes /\ UNCHANGED exceptTick
    \/ AlertProcessMarketData /\ UNCHANGED exceptTick

InitTick ==
    TickInit /\ TrackerInit /\ CooldownIdle /\ ScalpInit /\ BotInit /\ MultiInit /\ PivotInit /\ TpslInit /\ RsiInit /\ DivIdle /\ SchedInit /\ IndInit /\ PersistIdle /\ HistoryIdle /\ ActionInit /\ TimerIdle /\ StructureInit /\ PivotCallIdle /\ CheckIdle /\ AlertIdle

SpecSyncTick == InitTick /\ [][TickNext]_vars

AlertNext ==
    \/ ScalpingTick /\ UNCHANGED exceptAlert
    \/ VolumeDivergenceTick /\ UNCHANGED exceptAlert
    \/ RSIDivergenceTick /\ UNCHANGED exceptAlert
    \/ AlertClock /\ UNCHANGED exceptAlert

InitAlert ==
    AlertInit /\ TrackerInit /\ CooldownIdle /\ ScalpInit /\ BotInit /\ MultiInit /\ PivotInit /\ TpslInit /\ RsiInit /\ DivIdle /\ SchedInit /\ IndInit /\ PersistIdle /\ HistoryIdle /\ ActionInit /\ TimerIdle /\ StructureInit /\ PivotCallIdle /\ CheckIdle /\ TickIdle

SpecAlertTrackers == InitAlert /\ [][AlertNext]_vars
====
